---- MODULE Spec2Model ----
(***************************************************************************)
(* A model of the Pinata Go SDK: the client and its configuration, the     *)
(* files services (private and public) and the private upload service.     *)
(*                                                                         *)
(* Every SDK method is one action.  A method's body is an operator that    *)
(* takes the arguments and what the environment answers (the HTTP          *)
(* responses, the clock, an operating-system fault) and returns the        *)
(* outcome of the call: the ordered list of events the call performed      *)
(* (requests sent, temporary files created, written, rewound, removed),    *)
(* the returned value and the returned error.  One client.Do / client.Get  *)
(* is one "send" event; redirects and connection reuse inside net/http     *)
(* are below the level of this model.                                      *)
(***************************************************************************)
EXTENDS Integers, Sequences, FiniteSets, TLC

VARIABLES
    heap,     \* the Config objects, by address
    client,   \* the Client: its Config pointer and its services' pointers
    ofiles,   \* the caller's open files: name, content and read offset
    disk,     \* names of the temporary files that exist on disk
    pc,       \* the caller: "idle" between calls, "returned" with a result
    last,     \* the call that has just returned: operation, events, result
    cwriter,  \* concurrent run: the caller's goroutine that changes the Config
    cproc     \* concurrent run: each calling goroutine's position and locals

vars == <<heap, client, ofiles, disk, pc, last, cwriter, cproc>>

(***************************************************************************)
(* Bounds of the model.                                                    *)
(***************************************************************************)
MaxIds == 2
MaxFiles == 2
MaxLink == 3

(***************************************************************************)
(* Small helpers on sequences.                                             *)
(***************************************************************************)
SeqsUpTo(S, n) == UNION {[1..k -> S] : k \in 0..n}

RECURSIVE SelectSeqBy(_, _)
SelectSeqBy(s, S) ==
    IF s = <<>> THEN <<>>
    ELSE IF Head(s) \in S THEN <<Head(s)>> \o SelectSeqBy(Tail(s), S)
    ELSE SelectSeqBy(Tail(s), S)

EmptyMap == [k \in {} |-> ""]

(***************************************************************************)
(* Go values: a map is nil or holds entries; a pointer is nil or points to *)
(* a value; a slice is nil or holds elements.                              *)
(***************************************************************************)
NilMap == [nil |-> TRUE, m |-> EmptyMap]
MakeMap(m) == [nil |-> FALSE, m |-> m]
MapLen(mp) == Cardinality(DOMAIN mp.m)

NilPtr == [nil |-> TRUE]
Ptr(v) == [nil |-> FALSE, v |-> v]

NilSlice == [nil |-> TRUE, elems |-> <<>>]
Slice(s) == [nil |-> FALSE, elems |-> s]

(***************************************************************************)
(* Errors.  NoErr is Go's nil error.                                       *)
(***************************************************************************)
NoErr == [kind |-> "nil"]
ErrRequired(what) == [kind |-> "required", what |-> what]
ErrWrap(what) == [kind |-> what]
ErrAPI(status, body) == [kind |-> "API error", status |-> status, body |-> body]
ErrAuth(status, body) ==
    [kind |-> "authentication failed", status |-> status, body |-> body]
ErrURLStatus(status) == [kind |-> "URL returned non-OK status", status |-> status]

(***************************************************************************)
(* Configuration and client construction.                                  *)
(***************************************************************************)
DefaultAPIURL == "https://api.pinata.cloud/v3"
DefaultUploadURL == "https://uploads.pinata.cloud/v3"

NewConfig(jwt, gateway) ==
    [PinataJWT |-> jwt, PinataGateway |-> gateway,
     APIUrl |-> DefaultAPIURL, UploadUrl |-> DefaultUploadURL,
     CustomHeaders |-> MakeMap(EmptyMap)]

NewPrivateService(config) == [config |-> config]
NewPublicService(config) == [config |-> config]

FilesNew(config) ==
    [config |-> config,
     Public |-> NewPublicService(config),
     Private |-> NewPrivateService(config)]

UploadNew(config) ==
    [config |-> config,
     Private |-> NewPrivateService(config)]

\* A mutant of NewWithConfig: the services are given a copy of the config.
NewWithConfigCopy(config) ==
    [Config |-> config, Files |-> FilesNew(config + 1), Upload |-> UploadNew(config + 1)]

NewWithConfig(config) ==
    [Config |-> config, Files |-> FilesNew(config), Upload |-> UploadNew(config)]

\* New allocates the config at address `addr` and builds the client on it.
New(jwt, gateway, addr) ==
    [heap |-> (addr :> NewConfig(jwt, gateway)), client |-> NewWithConfig(addr)]

(***************************************************************************)
(* HTTP: requests, responses and the events of a call.                     *)
(***************************************************************************)
NoBody == [kind |-> "none"]
JSONBody(payload) == [kind |-> "json", payload |-> payload]

Bearer(jwt) == <<"Bearer ", jwt>>

\* req.Header.Set of the fixed headers, then of every custom header: a custom
\* header of the same name replaces the fixed one.
SetHeaders(cfg, fixed) == cfg.CustomHeaders.m @@ fixed

JSONHeaders(cfg) ==
    SetHeaders(cfg, ("Authorization" :> Bearer(cfg.PinataJWT))
                    @@ ("Content-Type" :> <<"application/json">>))

Request(method, url, query, headers, body) ==
    [method |-> method, url |-> url, query |-> query,
     headers |-> headers, body |-> body]

\* url.Parse inside http.NewRequest rejects a URL with a bad percent escape.
BadEscape == "%zz"
NewRequestFails(url) == \E i \in DOMAIN url : url[i] = BadEscape

\* url.QueryEscape
QueryEscape(s) == IF s = BadEscape THEN "%25zz" ELSE s

NetErr == [kind |-> "neterr"]
HTTP(status, body) == [kind |-> "http", status |-> status, body |-> body]
StatusOK == 200

Send(req, resp) == [e |-> "send", req |-> req, resp |-> resp]
ReadClock(t) == [e |-> "now", t |-> t]

Outcome(events, val, err) ==
    [events |-> events, val |-> val, err |-> err, panic |-> FALSE]
Panic(events) ==
    [events |-> events, val |-> NilPtr, err |-> NoErr, panic |-> TRUE]

(***************************************************************************)
(* Response bodies and json.Decoder.Decode into struct{ Data T }.          *)
(* A body is: not JSON; an object without "data"; "data": null; "data" an  *)
(* object; "data" an array; "data" a string.                               *)
(***************************************************************************)
BodyNotJSON == [k |-> "notjson"]
BodyNoData == [k |-> "nodata"]
BodyNull == [k |-> "null"]
BodyObj == [k |-> "obj"]
BodyArr == [k |-> "arr"]
BodyStr(s) == [k |-> "str", s |-> s]
BodyText(s) == [k |-> "text", s |-> s]

Zero(T) ==
    CASE T = "ptr" -> NilPtr
      [] T = "slice" -> NilSlice
      [] T = "string" -> <<>>
      [] T = "bool" -> FALSE
      [] T = "none" -> NilPtr

\* The decoded Data field, or a decode error.
Decode(T, body) ==
    IF body.k \in {"notjson", "text"} THEN [ok |-> FALSE, val |-> Zero(T)]
    ELSE IF body.k \in {"nodata", "null"} THEN [ok |-> TRUE, val |-> Zero(T)]
    ELSE IF T = "ptr" THEN
        IF body.k = "obj" THEN [ok |-> TRUE, val |-> Ptr("data")]
        ELSE [ok |-> FALSE, val |-> Zero(T)]
    ELSE IF T = "slice" THEN
        IF body.k = "arr" THEN [ok |-> TRUE, val |-> Slice(<<"item">>)]
        ELSE [ok |-> FALSE, val |-> Zero(T)]
    ELSE \* T = "string"
        IF body.k = "str" THEN [ok |-> TRUE, val |-> body.s]
        ELSE [ok |-> FALSE, val |-> Zero(T)]

\* A mutant of RoundTrip: a failed request is sent once more.
RoundTripRetry(req, resp, T) ==
    IF resp.kind = "neterr"
    THEN Outcome(<<Send(req, resp), Send(req, resp)>>, Zero(T), ErrWrap("failed to send request"))
    ELSE IF resp.status # StatusOK
    THEN Outcome(<<Send(req, resp), Send(req, resp)>>, Zero(T), ErrAPI(resp.status, resp.body))
    ELSE Outcome(<<Send(req, resp)>>, Zero(T), NoErr)

\* A mutant of RoundTrip: every 2xx status counts as success.
RoundTrip2xx(req, resp, T) ==
    IF resp.kind = "neterr"
    THEN Outcome(<<Send(req, resp)>>, Zero(T), ErrWrap("failed to send request"))
    ELSE IF resp.status < 200 \/ resp.status > 299
    THEN Outcome(<<Send(req, resp)>>, Zero(T), ErrAPI(resp.status, resp.body))
    ELSE LET d == Decode(T, resp.body)
         IN  IF d.ok THEN Outcome(<<Send(req, resp)>>, d.val, NoErr)
             ELSE Outcome(<<Send(req, resp)>>, Zero(T), ErrWrap("failed to decode response"))

\* The tail every method shares: http.NewRequest, client.Do, the status check
\* and the decoding of the envelope into a Data field of type T.
RoundTrip(req, resp, T) ==
    IF NewRequestFails(req.url)
    THEN Outcome(<<>>, Zero(T), ErrWrap("failed to create request"))
    ELSE IF resp.kind = "neterr"
    THEN Outcome(<<Send(req, resp)>>, Zero(T), ErrWrap("failed to send request"))
    ELSE IF resp.status # StatusOK
    THEN Outcome(<<Send(req, resp)>>, Zero(T), ErrAPI(resp.status, resp.body))
    ELSE LET d == Decode(T, resp.body)
         IN  IF d.ok THEN Outcome(<<Send(req, resp)>>, d.val, NoErr)
             ELSE Outcome(<<Send(req, resp)>>, Zero(T), ErrWrap("failed to decode response"))

\* Methods that return only an error do not read the body of a 200 answer.
RoundTripNoBody(req, resp) ==
    IF NewRequestFails(req.url)
    THEN Outcome(<<>>, NilPtr, ErrWrap("failed to create request"))
    ELSE IF resp.kind = "neterr"
    THEN Outcome(<<Send(req, resp)>>, NilPtr, ErrWrap("failed to send request"))
    ELSE IF resp.status # StatusOK
    THEN Outcome(<<Send(req, resp)>>, NilPtr, ErrAPI(resp.status, resp.body))
    ELSE Outcome(<<Send(req, resp)>>, NilPtr, NoErr)

(***************************************************************************)
(* The files services.  The private and the public service are the same    *)
(* code but for the network segment of the path; net is "private" or       *)
(* "public".                                                               *)
(***************************************************************************)
\* A mutant of FilesURL: both services share the private path.
FilesURLShared(cfg, net) == <<cfg.APIUrl, "/files/", "private">>

FilesURL(cfg, net) == <<cfg.APIUrl, "/files/", net>>

FilesGet(net, cfg, id, resp) ==
    RoundTrip(Request("GET", FilesURL(cfg, net) \o <<"/", id>>, <<>>,
                      JSONHeaders(cfg), NoBody), resp, "ptr")

\* url.Values: Add appends a value to the values of a key.
Param(cond, key, value) == IF cond THEN (key :> <<value>>) ELSE EmptyMap

GroupParam(o) ==
    LET vs == (IF o.Group # "" THEN <<o.Group>> ELSE <<>>)
              \o (IF o.NoGroup THEN <<"null">> ELSE <<>>)
    IN  IF vs = <<>> THEN EmptyMap ELSE ("group" :> vs)

KeyValueParams(kv) ==
    [key \in {"keyvalues[" \o k \o "]" : k \in DOMAIN kv.m} |->
        <<kv.m[CHOOSE k \in DOMAIN kv.m : key = "keyvalues[" \o k \o "]"]>>]

ListParams(opts) ==
    IF opts.nil THEN EmptyMap
    ELSE LET o == opts.v
         IN  Param(o.Name # "", "name", o.Name)
             @@ GroupParam(o)
             @@ Param(o.CID # "", "cid", o.CID)
             @@ Param(o.CIDPending, "cidPending", "true")
             @@ Param(o.MimeType # "", "mimeType", o.MimeType)
             @@ Param(o.Order # "", "order", o.Order)
             @@ Param(o.Limit > 0, "limit", ToString(o.Limit))
             @@ Param(o.PageToken # "", "pageToken", o.PageToken)
             @@ KeyValueParams(o.KeyValues)

\* url.Values.Encode: key=value pairs, the keys in sorted order.
ParamOrder ==
    <<"cid", "cidPending", "group", "keyvalues[k1]", "keyvalues[k2]", "limit",
      "mimeType", "name", "order", "pageToken", "status">>

RECURSIVE EncodeFrom(_, _)
EncodeFrom(params, keys) ==
    IF keys = <<>> THEN <<>>
    ELSE (IF Head(keys) \in DOMAIN params
          THEN [i \in 1..Len(params[Head(keys)]) |-> <<Head(keys), params[Head(keys)][i]>>]
          ELSE <<>>) \o EncodeFrom(params, Tail(keys))

Encode(params) == EncodeFrom(params, ParamOrder)

\* requestURL: the base URL, and "?" with the encoded parameters if there are any.
WithQuery(req, params) ==
    IF DOMAIN params # {}
    THEN [req EXCEPT !.url = req.url \o <<"?">>, !.query = Encode(params)]
    ELSE req

FilesList(net, cfg, opts, resp) ==
    RoundTrip(WithQuery(Request("GET", FilesURL(cfg, net), <<>>, JSONHeaders(cfg), NoBody),
                        ListParams(opts)), resp, "ptr")

\* json.Marshal of UpdateOptions: ID is "-", Name and KeyValues are omitempty.
MarshalUpdateOptions(o) ==
    (IF o.Name # "" THEN ("name" :> o.Name) ELSE EmptyMap)
    @@ (IF MapLen(o.KeyValues) > 0 THEN ("keyvalues" :> o.KeyValues.m) ELSE EmptyMap)

FilesUpdate(net, cfg, opts, resp) ==
    IF opts.nil \/ opts.v.ID = ""
    THEN Outcome(<<>>, NilPtr, ErrRequired("file ID"))
    ELSE RoundTrip(Request("PUT", FilesURL(cfg, net) \o <<"/", opts.v.ID>>, <<>>,
                           JSONHeaders(cfg), JSONBody(MarshalUpdateOptions(opts.v))),
                   resp, "ptr")

DeleteRequest(net, cfg, id) ==
    Request("DELETE", FilesURL(cfg, net) \o <<"/", id>>, <<>>, JSONHeaders(cfg), NoBody)

\* A mutant of DeleteLoop: an ID that fails is skipped and the loop goes on.
RECURSIVE DeleteLoopSkip(_, _, _, _, _, _)
DeleteLoopSkip(net, cfg, ids, resps, events, responses) ==
    IF ids = <<>> THEN Outcome(events, Slice(responses), NoErr)
    ELSE LET req == DeleteRequest(net, cfg, Head(ids))
             resp == Head(resps)
             ok == resp.kind = "http" /\ resp.status = StatusOK
         IN  DeleteLoopSkip(net, cfg, Tail(ids), Tail(resps),
                            Append(events, Send(req, resp)),
                            IF ok THEN Append(responses, [ID |-> Head(ids), Status |-> "deleted"])
                            ELSE responses)

\* A mutant of DeleteLoop: an ID that was already deleted in this call is
\* passed over.
RECURSIVE DeleteLoopDedup(_, _, _, _, _, _)
DeleteLoopDedup(net, cfg, ids, resps, events, responses) ==
    IF ids = <<>> THEN Outcome(events, Slice(responses), NoErr)
    ELSE LET req == DeleteRequest(net, cfg, Head(ids))
             resp == Head(resps)
         IN  IF \E i \in 1..Len(responses) : responses[i].ID = Head(ids)
             THEN DeleteLoopDedup(net, cfg, Tail(ids), Tail(resps), events, responses)
             ELSE IF NewRequestFails(req.url)
             THEN Outcome(events, NilSlice, ErrWrap("failed to create request"))
             ELSE IF resp.kind = "neterr"
             THEN Outcome(Append(events, Send(req, resp)), NilSlice,
                          ErrWrap("failed to send request"))
             ELSE IF resp.status # StatusOK
             THEN Outcome(Append(events, Send(req, resp)), NilSlice,
                          ErrAPI(resp.status, resp.body))
             ELSE DeleteLoopDedup(net, cfg, Tail(ids), Tail(resps),
                                  Append(events, Send(req, resp)),
                                  Append(responses, [ID |-> Head(ids), Status |-> "deleted"]))

\* The loop over the IDs: one DELETE request per ID, stopping at the first failure.
RECURSIVE DeleteLoop(_, _, _, _, _, _)
DeleteLoop(net, cfg, ids, resps, events, responses) ==
    IF ids = <<>> THEN Outcome(events, Slice(responses), NoErr)
    ELSE LET req == DeleteRequest(net, cfg, Head(ids))
             resp == Head(resps)
         IN  IF NewRequestFails(req.url)
             THEN Outcome(events, NilSlice, ErrWrap("failed to create request"))
             ELSE IF resp.kind = "neterr"
             THEN Outcome(Append(events, Send(req, resp)), NilSlice,
                          ErrWrap("failed to send request"))
             ELSE IF resp.status # StatusOK
             THEN Outcome(Append(events, Send(req, resp)), NilSlice,
                          ErrAPI(resp.status, resp.body))
             ELSE DeleteLoop(net, cfg, Tail(ids), Tail(resps),
                             Append(events, Send(req, resp)),
                             Append(responses, [ID |-> Head(ids), Status |-> "deleted"]))

FilesDelete(net, cfg, ids, resps) ==
    IF Len(ids) = 0
    THEN Outcome(<<>>, NilSlice, ErrRequired("at least one file ID"))
    ELSE DeleteLoop(net, cfg, ids, resps, <<>>, <<>>)

\* A mutant of FilesAddSwap: an empty CID is not rejected.
FilesAddSwapAnyCID(net, cfg, opts, resp) ==
    IF opts.nil \/ opts.v.SwapCID = ""
    THEN Outcome(<<>>, NilPtr, ErrRequired("CID and swap CID"))
    ELSE RoundTrip(Request("PUT", FilesURL(cfg, net) \o <<"/swap/", opts.v.CID>>, <<>>,
                           JSONHeaders(cfg), JSONBody("swap_cid" :> opts.v.SwapCID)),
                   resp, "ptr")

FilesAddSwap(net, cfg, opts, resp) ==
    IF opts.nil \/ opts.v.CID = "" \/ opts.v.SwapCID = ""
    THEN Outcome(<<>>, NilPtr, ErrRequired("CID and swap CID"))
    ELSE RoundTrip(Request("PUT", FilesURL(cfg, net) \o <<"/swap/", opts.v.CID>>, <<>>,
                           JSONHeaders(cfg), JSONBody("swap_cid" :> opts.v.SwapCID)),
                   resp, "ptr")

FilesGetSwapHistory(net, cfg, opts, resp) ==
    IF opts.nil \/ opts.v.CID = "" \/ opts.v.Domain = ""
    THEN Outcome(<<>>, NilSlice, ErrRequired("CID and domain"))
    ELSE RoundTrip(Request("GET",
                           FilesURL(cfg, net)
                               \o <<"/swap/", opts.v.CID, "?domain=", QueryEscape(opts.v.Domain)>>,
                           <<>>, JSONHeaders(cfg), NoBody),
                   resp, "slice")

FilesDeleteSwap(net, cfg, cid, resp) ==
    IF cid = ""
    THEN Outcome(<<>>, NilPtr, ErrRequired("CID"))
    ELSE RoundTripNoBody(Request("DELETE", FilesURL(cfg, net) \o <<"/swap/", cid>>, <<>>,
                                 JSONHeaders(cfg), NoBody), resp)

(***************************************************************************)
(* CreateAccessLink.  A string is a sequence of tokens; the tokens that    *)
(* the clean-up of the link looks at are the escaped '&' and the quote.      *)
(***************************************************************************)
EscapedAmp == "\\u0026"
Quote == "\""

\* strings.ReplaceAll(s, "\\u0026", "&")
ReplaceAllAmp(s) == [i \in 1..Len(s) |-> IF s[i] = EscapedAmp THEN "&" ELSE s[i]]

\* strings.Trim(s, "\""): every leading and every trailing quote goes.
RECURSIVE TrimLeft(_)
TrimLeft(s) == IF s # <<>> /\ Head(s) = Quote THEN TrimLeft(Tail(s)) ELSE s

RECURSIVE TrimRight(_)
TrimRight(s) ==
    IF s # <<>> /\ s[Len(s)] = Quote THEN TrimRight(SubSeq(s, 1, Len(s) - 1)) ELSE s

\* A mutant of Trim: one quote is taken from each end.
TrimOnce(s) ==
    LET l == IF s # <<>> /\ Head(s) = Quote THEN Tail(s) ELSE s
    IN  IF l # <<>> /\ l[Len(l)] = Quote THEN SubSeq(l, 1, Len(l) - 1) ELSE l

Trim(s) == TrimRight(TrimLeft(s))

CleanLink(s) == Trim(ReplaceAllAmp(s))

\* A mutant of DateOrNow: only a positive date is kept.
DateOrNowPositive(date, now) ==
    IF date <= 0 THEN [date |-> now, events |-> <<ReadClock(now)>>]
    ELSE [date |-> date, events |-> <<>>]

\* "Set current time if not provided": the date sent and the clock reads made.
DateOrNow(date, now) ==
    IF date = 0 THEN [date |-> now, events |-> <<ReadClock(now)>>]
    ELSE [date |-> date, events |-> <<>>]

Prefixed(events, out) == [out EXCEPT !.events = events \o out.events]

\* A mutant of AccessLinkValid: an expiry of zero passes.
AccessLinkValidZero(opts) == ~opts.nil /\ opts.v.CID # "" /\ opts.v.Expires >= 0

AccessLinkValid(opts) == ~(opts.nil \/ opts.v.CID = "" \/ opts.v.Expires <= 0)

CreateAccessLink(cfg, opts, now, resp) ==
    IF ~AccessLinkValid(opts)
    THEN Outcome(<<>>, <<>>, ErrRequired("CID and expiration time"))
    ELSE LET gateway == IF opts.v.Gateway = "" THEN cfg.PinataGateway ELSE opts.v.Gateway
             d == DateOrNow(opts.v.Date, now)
             payload == [url |-> <<"https://", gateway, ".mypinata.cloud/files/", opts.v.CID>>,
                         date |-> d.date, expires |-> opts.v.Expires, method |-> "GET"]
             out == RoundTrip(Request("POST", FilesURL(cfg, "private") \o <<"/download_link">>,
                                      <<>>, JSONHeaders(cfg), JSONBody(payload)),
                              resp, "string")
         IN  Prefixed(d.events,
                      IF out.err = NoErr THEN [out EXCEPT !.val = CleanLink(out.val)] ELSE out)

(***************************************************************************)
(* Vectors (private service).                                              *)
(***************************************************************************)
Vectorize(cfg, fileID, resp) ==
    IF fileID = ""
    THEN Outcome(<<>>, NilPtr, ErrRequired("file ID"))
    ELSE RoundTrip(Request("POST", <<cfg.APIUrl, "/vectorize/files/", fileID>>, <<>>,
                           JSONHeaders(cfg), NoBody), resp, "ptr")

DeleteVectors(cfg, fileID, resp) ==
    IF fileID = ""
    THEN Outcome(<<>>, NilPtr, ErrRequired("file ID"))
    ELSE RoundTrip(Request("DELETE", <<cfg.APIUrl, "/vectorize/files/", fileID>>, <<>>,
                           JSONHeaders(cfg), NoBody), resp, "ptr")

QueryVectors(cfg, opts, resp) ==
    IF opts.nil \/ opts.v.GroupID = "" \/ opts.v.Query = ""
    THEN Outcome(<<>>, NilPtr, ErrRequired("group ID and query text"))
    ELSE LET req == Request("POST", <<cfg.APIUrl, "/vectorize/groups/", opts.v.GroupID, "/query">>,
                            <<>>, JSONHeaders(cfg), JSONBody("text" :> opts.v.Query))
         IN  IF opts.v.ReturnFile /\ ~NewRequestFails(req.url)
                /\ resp.kind = "http" /\ resp.status = StatusOK
             THEN \* the body is returned as it is, with the Content-Type header
                  Outcome(<<Send(req, resp)>>,
                          Ptr([ContentType |-> "content-type", Data |-> resp.body]), NoErr)
             ELSE RoundTrip(req, resp, "ptr")

(***************************************************************************)
(* Pin by CID (public service).                                            *)
(***************************************************************************)
MarshalPinByHashOptions(o) ==
    ("cid" :> o.CID)
    @@ (IF o.Name # "" THEN ("name" :> o.Name) ELSE EmptyMap)
    @@ (IF o.GroupID # "" THEN ("group_id" :> o.GroupID) ELSE EmptyMap)
    @@ (IF MapLen(o.KeyValues) > 0 THEN ("keyvalues" :> o.KeyValues.m) ELSE EmptyMap)
    @@ (IF Len(o.HostNodes) > 0 THEN ("host_nodes" :> o.HostNodes) ELSE EmptyMap)

PinByHash(cfg, opts, resp) ==
    IF opts.nil \/ opts.v.CID = ""
    THEN Outcome(<<>>, NilPtr, ErrRequired("CID"))
    ELSE RoundTrip(Request("POST", FilesURL(cfg, "public") \o <<"/pin_by_cid">>, <<>>,
                           JSONHeaders(cfg), JSONBody(MarshalPinByHashOptions(opts.v))),
                   resp, "ptr")

QueueParams(opts) ==
    IF opts.nil THEN EmptyMap
    ELSE LET o == opts.v
         IN  Param(o.Sort # "", "order", o.Sort)
             @@ Param(o.Status # "", "status", o.Status)
             @@ Param(o.CID # "", "cid", o.CID)
             @@ Param(o.Limit > 0, "limit", ToString(o.Limit))
             @@ Param(o.PageToken # "", "pageToken", o.PageToken)

Queue(cfg, opts, resp) ==
    RoundTrip(WithQuery(Request("GET", FilesURL(cfg, "public") \o <<"/pin_by_cid">>, <<>>,
                                JSONHeaders(cfg), NoBody),
                        QueueParams(opts)), resp, "ptr")

CancelPinRequest(cfg, id, resp) ==
    IF id = ""
    THEN Outcome(<<>>, NilPtr, ErrRequired("request ID"))
    ELSE RoundTripNoBody(Request("DELETE", FilesURL(cfg, "public") \o <<"/pin_by_cid/", id>>,
                                 <<>>, JSONHeaders(cfg), NoBody), resp)

(***************************************************************************)
(* Client.TestAuthentication.                                              *)
(***************************************************************************)
TestAuthentication(cfg, resp) ==
    LET req == Request("GET", <<"https://api.pinata.cloud/data/testAuthentication">>, <<>>,
                       SetHeaders(cfg, "Authorization" :> Bearer(cfg.PinataJWT)), NoBody)
    IN  IF resp.kind = "neterr"
        THEN Outcome(<<Send(req, resp)>>, FALSE, ErrWrap("failed to send request"))
        ELSE IF resp.status # StatusOK
        THEN Outcome(<<Send(req, resp)>>, FALSE, ErrAuth(resp.status, resp.body))
        ELSE Outcome(<<Send(req, resp)>>, TRUE, NoErr)

\* The TestAuthentication of the client in the root package: its body is
\* "return true, nil".
TestAuthenticationStub == Outcome(<<>>, TRUE, NoErr)

(***************************************************************************)
(* The private upload service.                                             *)
(*                                                                         *)
(* An *os.File is nil or a record: its path (a sequence of segments), its  *)
(* content (bytes), its read/write offset and whether it is closed.  A     *)
(* fault names the one operating-system call that fails during a call, if  *)
(* any: "createTemp", "write", "seek" (the helper's rewind), "fileSeek"    *)
(* (File's own rewind) or "fileCopy" (File's read of the content).         *)
(***************************************************************************)
NilFile == [nil |-> TRUE]
OpenFile(name, content, offset) ==
    [nil |-> FALSE, name |-> name, content |-> content, offset |-> offset, closed |-> FALSE]

\* filepath.Base of a path given by its segments; FileInfo.Name is the same.
Base(name) == IF name = <<>> THEN "." ELSE name[Len(name)]

SeekEv(name) == [e |-> "seek", name |-> name]
CopyEv(name, bytes) == [e |-> "copy", name |-> name, bytes |-> bytes]

\* io.Copy(part, file): the bytes from the file's offset to its end.
ReadToEnd(file) == SubSeq(file.content, file.offset + 1, Len(file.content))

\* json.Marshal of a map[string]string: the entries, sorted by key.
KeyOrder == <<"k1", "k2">>
MarshalKeyValues(kv) ==
    LET keys == SelectSeqBy(KeyOrder, DOMAIN kv.m)
    IN  [i \in 1..Len(keys) |-> <<keys[i], kv.m[keys[i]]>>]

Field(name, value) == <<name, value>>
FilePart(file, bytes) == [field |-> "file", filename |-> Base(file.name), bytes |-> bytes]
MultipartBody(fields, parts) == [kind |-> "multipart", fields |-> fields, parts |-> parts]

MultipartHeaders(cfg) ==
    SetHeaders(cfg, ("Authorization" :> Bearer(cfg.PinataJWT))
                    @@ ("Content-Type" :> <<"multipart/form-data">>))

UploadFilesURL(cfg) == <<cfg.UploadUrl, "/files">>

\* The option fields File and FileArray share: group_id and keyvalues.
GroupField(o) == IF o.GroupID # "" THEN <<Field("group_id", o.GroupID)>> ELSE <<>>
KeyValuesField(o) ==
    IF MapLen(o.KeyValues) > 0
    THEN <<Field("keyvalues", MarshalKeyValues(o.KeyValues))>> ELSE <<>>

\* A mutant of FileFields: the name is always the name of the file on disk.
FileFieldsDiskName(file, opts) ==
    <<Field("network", "private")>>
    \o (IF opts.nil THEN <<>>
        ELSE GroupField(opts.v) \o <<Field("name", Base(file.name))>> \o KeyValuesField(opts.v))

FileFields(file, opts) ==
    <<Field("network", "private")>>
    \o (IF opts.nil THEN <<>>
        ELSE GroupField(opts.v)
             \o <<Field("name", IF opts.v.FileName # "" THEN opts.v.FileName
                                ELSE Base(file.name))>>
             \o KeyValuesField(opts.v))

FileOut(out, file) == out @@ [file |-> file]

\* A mutant of File: the file is read from wherever its offset stands.
FileNoSeek(cfg, file, opts, fault, resp) ==
    IF file.nil THEN FileOut(Outcome(<<>>, NilPtr, ErrRequired("file")), file)
    ELSE LET bytes == ReadToEnd(file)
             read == [file EXCEPT !.offset = Len(file.content)]
             req == Request("POST", UploadFilesURL(cfg), <<>>, MultipartHeaders(cfg),
                            MultipartBody(FileFields(file, opts), <<FilePart(file, bytes)>>))
         IN  FileOut(Prefixed(<<CopyEv(file.name, bytes)>>, RoundTrip(req, resp, "ptr")), read)

File(cfg, file, opts, fault, resp) ==
    IF file.nil THEN FileOut(Outcome(<<>>, NilPtr, ErrRequired("file")), file)
    ELSE IF file.closed
    THEN FileOut(Outcome(<<>>, NilPtr, ErrWrap("failed to get file info")), file)
    ELSE IF fault = "fileSeek"
    THEN FileOut(Outcome(<<>>, NilPtr, ErrWrap("failed to reset file position")), file)
    ELSE LET rewound == [file EXCEPT !.offset = 0]
             bytes == ReadToEnd(rewound)
             read == [file EXCEPT !.offset = Len(file.content)]
             req == Request("POST", UploadFilesURL(cfg), <<>>, MultipartHeaders(cfg),
                            MultipartBody(FileFields(file, opts), <<FilePart(file, bytes)>>))
         IN  IF fault = "fileCopy"
             THEN FileOut(Outcome(<<SeekEv(file.name)>>, NilPtr,
                                  ErrWrap("failed to copy file data")), rewound)
             ELSE FileOut(Prefixed(<<SeekEv(file.name), CopyEv(file.name, bytes)>>,
                                   RoundTrip(req, resp, "ptr")), read)

\* A mutant of FileArrayFields: with options, a "name" field is always sent.
FileArrayFieldsNamed(opts) ==
    <<Field("network", "private")>>
    \o (IF opts.nil THEN <<>>
        ELSE GroupField(opts.v) \o <<Field("name", opts.v.FileName)>> \o KeyValuesField(opts.v))

FileArrayFields(opts) ==
    <<Field("network", "private")>>
    \o (IF opts.nil THEN <<>>
        ELSE GroupField(opts.v)
             \o (IF opts.v.FileName # "" THEN <<Field("name", opts.v.FileName)>> ELSE <<>>)
             \o KeyValuesField(opts.v))

\* file.Seek(0, 0) and then io.Copy(part, file): what is read of the file.
Rewound(file) == ReadToEnd([file EXCEPT !.offset = 0])

\* files is a sequence of non-nil files.  The loop rewinds and copies them in
\* order and stops at the first file whose Seek fails (a closed file).
FileArray(cfg, files, opts, resp) ==
    IF Len(files) = 0
    THEN Outcome(<<>>, NilPtr, ErrRequired("at least one file")) @@ [files |-> files]
    ELSE IF \E i \in 1..Len(files) : files[i].closed
    THEN LET k == CHOOSE i \in 1..Len(files) :
                      files[i].closed /\ \A j \in 1..(i - 1) : ~files[j].closed
         IN  Outcome([i \in 1..(2 * (k - 1)) |->
                          IF i % 2 = 1 THEN SeekEv(files[(i + 1) \div 2].name)
                          ELSE CopyEv(files[i \div 2].name, Rewound(files[i \div 2]))],
                     NilPtr, ErrWrap("failed to reset file position"))
             @@ [files |-> [i \in 1..Len(files) |->
                               IF i < k THEN [files[i] EXCEPT !.offset = Len(files[i].content)]
                               ELSE files[i]]]
    ELSE LET parts == [i \in 1..Len(files) |-> FilePart(files[i], Rewound(files[i]))]
             req == Request("POST", UploadFilesURL(cfg), <<>>, MultipartHeaders(cfg),
                            MultipartBody(FileArrayFields(opts), parts))
         IN  Prefixed([i \in 1..(2 * Len(files)) |->
                          IF i % 2 = 1 THEN SeekEv(files[(i + 1) \div 2].name)
                          ELSE CopyEv(files[i \div 2].name, Rewound(files[i \div 2]))],
                      RoundTrip(req, resp, "ptr"))
             @@ [files |-> [i \in 1..Len(files) |->
                               [files[i] EXCEPT !.offset = Len(files[i].content)]]]

(***************************************************************************)
(* The upload helpers: JSON, Base64 and URL.                               *)
(***************************************************************************)
CreateTempEv(name) == [e |-> "createTemp", name |-> name]
WriteEv(name, bytes) == [e |-> "write", name |-> name, bytes |-> bytes]
RemoveEv(name) == [e |-> "remove", name |-> name]

\* os.CreateTemp("", pattern): a name that no file on the disk has.
TempName(prefix, suffix, dsk) ==
    LET n == CHOOSE i \in 1..(Cardinality(dsk) + 1) :
                 /\ <<"tmp", prefix \o ToString(i) \o suffix>> \notin dsk
                 /\ \A j \in 1..(i - 1) : <<"tmp", prefix \o ToString(j) \o suffix>> \in dsk
    IN  <<"tmp", prefix \o ToString(n) \o suffix>>

\* The disk after the events of a call: os.CreateTemp adds a name, os.Remove
\* deletes it (the file being still open does not prevent the unlink).
RECURSIVE DiskAfter(_, _)
DiskAfter(dsk, events) ==
    IF events = <<>> THEN dsk
    ELSE DiskAfter(CASE Head(events).e = "createTemp" -> dsk \cup {Head(events).name}
                     [] Head(events).e = "remove" -> dsk \ {Head(events).name}
                     [] OTHER -> dsk,
                   Tail(events))

FileOptionsOf(opts, name) ==
    Ptr([FileName |-> name, GroupID |-> opts.v.GroupID,
         KeyValues |-> opts.v.KeyValues, Vectorize |-> FALSE])

\* A mutant of StageAndUpload: the temporary file is removed only when the
\* upload was reached, not on the early returns.
StageAndUploadLeak(cfg, name, content, opts, defaultName, fault, resp) ==
    IF fault = "createTemp"
    THEN Outcome(<<>>, NilPtr, ErrWrap("failed to create temporary file"))
    ELSE IF fault = "write"
    THEN Outcome(<<CreateTempEv(name)>>, NilPtr, ErrWrap("failed to write to temporary file"))
    ELSE IF fault = "seek"
    THEN Outcome(<<CreateTempEv(name), WriteEv(name, content)>>, NilPtr,
                 ErrWrap("failed to reset file position"))
    ELSE IF opts.nil
    THEN Panic(<<CreateTempEv(name), WriteEv(name, content), SeekEv(name)>>)
    ELSE LET out == File(cfg, OpenFile(name, content, 0),
                         FileOptionsOf(opts, IF opts.v.Name # "" THEN opts.v.Name
                                             ELSE defaultName), fault, resp)
         IN  [events |-> <<CreateTempEv(name), WriteEv(name, content), SeekEv(name)>>
                         \o out.events \o <<RemoveEv(name)>>,
              val |-> out.val, err |-> out.err, panic |-> out.panic]

\* A mutant of StageAndUpload: the upload is started on the empty temporary
\* file and the content is written afterwards.
StageAndUploadLate(cfg, name, content, opts, defaultName, fault, resp) ==
    IF fault = "createTemp"
    THEN Outcome(<<>>, NilPtr, ErrWrap("failed to create temporary file"))
    ELSE IF opts.nil
    THEN Panic(<<CreateTempEv(name), RemoveEv(name)>>)
    ELSE LET out == File(cfg, OpenFile(name, <<>>, 0),
                         FileOptionsOf(opts, IF opts.v.Name # "" THEN opts.v.Name
                                             ELSE defaultName), fault, resp)
         IN  [events |-> <<CreateTempEv(name)>> \o out.events
                         \o <<WriteEv(name, content), SeekEv(name), RemoveEv(name)>>,
              val |-> out.val, err |-> out.err, panic |-> out.panic]

\* What JSON, Base64 and URL do once they hold the content: create the
\* temporary file, defer its removal, write the content, rewind, build the file
\* options (a nil opts is dereferenced here) and call File.
StageAndUpload(cfg, name, content, opts, defaultName, fault, resp) ==
    IF fault = "createTemp"
    THEN Outcome(<<>>, NilPtr, ErrWrap("failed to create temporary file"))
    ELSE IF fault = "write"
    THEN Outcome(<<CreateTempEv(name), RemoveEv(name)>>, NilPtr,
                 ErrWrap("failed to write to temporary file"))
    ELSE IF fault = "seek"
    THEN Outcome(<<CreateTempEv(name), WriteEv(name, content), RemoveEv(name)>>, NilPtr,
                 ErrWrap("failed to reset file position"))
    ELSE IF opts.nil
    THEN Panic(<<CreateTempEv(name), WriteEv(name, content), SeekEv(name), RemoveEv(name)>>)
    ELSE LET out == File(cfg, OpenFile(name, content, 0),
                         FileOptionsOf(opts, IF opts.v.Name # "" THEN opts.v.Name
                                             ELSE defaultName), fault, resp)
         IN  [events |-> <<CreateTempEv(name), WriteEv(name, content), SeekEv(name)>>
                         \o out.events \o <<RemoveEv(name)>>,
              val |-> out.val, err |-> out.err, panic |-> out.panic]

\* json.Marshal of the data: a string, a number, a typed nil pointer (which
\* marshals to null) or a channel (which json cannot marshal).
Marshal(data) ==
    CASE data.t = "string" -> [ok |-> TRUE, bytes |-> <<Quote, data.s, Quote>>]
      [] data.t = "number" -> [ok |-> TRUE, bytes |-> <<ToString(data.n)>>]
      [] data.t = "nilptr" -> [ok |-> TRUE, bytes |-> <<"null">>]
      [] data.t = "chan" -> [ok |-> FALSE, bytes |-> <<>>]

JSON(cfg, data, opts, fault, resp, dsk) ==
    IF data.t = "nil" THEN Outcome(<<>>, NilPtr, ErrRequired("JSON data"))
    ELSE IF ~Marshal(data).ok
    THEN Outcome(<<>>, NilPtr, ErrWrap("failed to marshal JSON data"))
    ELSE StageAndUpload(cfg, TempName("pinata-json-", ".json", dsk), Marshal(data).bytes,
                        opts, "data.json", fault, resp)

\* base64.StdEncoding.DecodeString.  A character is its 6-bit value, "=" for
\* the padding, or "*" for a character outside the alphabet.
B64Value(c) ==
    CASE c = "A" -> 0 [] c = "B" -> 1 [] c = "Q" -> 16 [] c = "g" -> 32 [] c = "/" -> 63
      [] OTHER -> -1

Quantum(a, b, c, d) ==
    LET n == ((a * 64 + b) * 64 + c) * 64 + d
    IN  <<n \div 65536, (n \div 256) % 256, n % 256>>

RECURSIVE Base64Decode(_)
Base64Decode(s) ==
    IF s = <<>> THEN [ok |-> TRUE, bytes |-> <<>>]
    ELSE IF Len(s) < 4 THEN [ok |-> FALSE, bytes |-> <<>>]
    ELSE LET a == B64Value(s[1])
             b == B64Value(s[2])
             c == B64Value(s[3])
             d == B64Value(s[4])
             rest == SubSeq(s, 5, Len(s))
         IN  IF a < 0 \/ b < 0 THEN [ok |-> FALSE, bytes |-> <<>>]
             ELSE IF s[3] = "=" /\ s[4] = "="
             THEN IF rest = <<>>
                  THEN [ok |-> TRUE, bytes |-> SubSeq(Quantum(a, b, 0, 0), 1, 1)]
                  ELSE [ok |-> FALSE, bytes |-> <<>>]
             ELSE IF c < 0 THEN [ok |-> FALSE, bytes |-> <<>>]
             ELSE IF s[4] = "="
             THEN IF rest = <<>>
                  THEN [ok |-> TRUE, bytes |-> SubSeq(Quantum(a, b, c, 0), 1, 2)]
                  ELSE [ok |-> FALSE, bytes |-> <<>>]
             ELSE IF d < 0 THEN [ok |-> FALSE, bytes |-> <<>>]
             ELSE LET r == Base64Decode(rest)
                  IN  IF r.ok THEN [ok |-> TRUE, bytes |-> Quantum(a, b, c, d) \o r.bytes]
                      ELSE r

Base64(cfg, data, opts, fault, resp, dsk) ==
    IF data = <<>> THEN Outcome(<<>>, NilPtr, ErrRequired("base64 data"))
    ELSE IF ~Base64Decode(data).ok
    THEN Outcome(<<>>, NilPtr, ErrWrap("failed to decode base64 data"))
    ELSE StageAndUpload(cfg, TempName("pinata-base64-", "", dsk), Base64Decode(data).bytes,
                        opts, "file", fault, resp)

\* strings.Split(targetURL, "/") and its last element, as one string.
RECURSIVE LastSegment(_)
LastSegment(url) ==
    IF url = <<>> THEN ""
    ELSE IF url[Len(url)] = "/" THEN ""
    ELSE LastSegment(SubSeq(url, 1, Len(url) - 1)) \o url[Len(url)]

\* A mutant of URLFileName: no default for a URL that ends with "/".
URLFileNameNoDefault(targetURL) == LastSegment(targetURL)

URLFileName(targetURL) ==
    IF LastSegment(targetURL) # "" THEN LastSegment(targetURL) ELSE "file"

FetchRequest(targetURL) == Request("GET", targetURL, <<>>, EmptyMap, NoBody)

\* A mutant of URL: the body of any answer is staged, whatever its status.
URLAnyStatus(cfg, targetURL, opts, fault, fetched, resp, dsk) ==
    IF targetURL = <<>> THEN Outcome(<<>>, NilPtr, ErrRequired("URL"))
    ELSE IF fetched.kind = "neterr"
    THEN Outcome(<<Send(FetchRequest(targetURL), fetched)>>, NilPtr,
                 ErrWrap("failed to fetch URL content"))
    ELSE Prefixed(<<Send(FetchRequest(targetURL), fetched)>>,
                  StageAndUpload(cfg, TempName("pinata-url-", "", dsk), fetched.body,
                                 opts, URLFileName(targetURL), fault, resp))

\* fetched is the answer to the GET of the target URL; its body is the bytes.
URL(cfg, targetURL, opts, fault, fetched, resp, dsk) ==
    IF targetURL = <<>> THEN Outcome(<<>>, NilPtr, ErrRequired("URL"))
    ELSE IF fetched.kind = "neterr"
    THEN Outcome(<<Send(FetchRequest(targetURL), fetched)>>, NilPtr,
                 ErrWrap("failed to fetch URL content"))
    ELSE IF fetched.status # StatusOK
    THEN Outcome(<<Send(FetchRequest(targetURL), fetched)>>, NilPtr,
                 ErrURLStatus(fetched.status))
    ELSE Prefixed(<<Send(FetchRequest(targetURL), fetched)>>,
                  StageAndUpload(cfg, TempName("pinata-url-", "", dsk), fetched.body,
                                 opts, URLFileName(targetURL), fault, resp))

(***************************************************************************)
(* CreateSignedURL.                                                        *)
(***************************************************************************)
\* A mutant of SignedPayload: max_file_size is always sent.
SignedPayloadAlwaysSize(o, date) ==
    [date |-> date, expires |-> o.Expires, network |-> "private",
     max_file_size |-> o.MaxFileSize]

SignedPayload(o, date) ==
    [date |-> date, expires |-> o.Expires, network |-> "private"]
    @@ (IF o.GroupID # "" THEN ("group_id" :> o.GroupID) ELSE EmptyMap)
    @@ (IF o.Name # "" THEN ("filename" :> o.Name) ELSE EmptyMap)
    @@ (IF MapLen(o.KeyValues) > 0 THEN ("keyvalues" :> o.KeyValues.m) ELSE EmptyMap)
    @@ (IF o.Vectorize THEN ("vectorize" :> TRUE) ELSE EmptyMap)
    @@ (IF o.MaxFileSize > 0 THEN ("max_file_size" :> o.MaxFileSize) ELSE EmptyMap)
    @@ (IF Len(o.MimeTypes) > 0 THEN ("allow_mime_types" :> o.MimeTypes) ELSE EmptyMap)

CreateSignedURL(cfg, opts, now, resp) ==
    IF opts.nil \/ opts.v.Expires <= 0
    THEN Outcome(<<>>, <<>>, ErrRequired("expiration time"))
    ELSE LET d == DateOrNow(opts.v.Date, now)
         IN  Prefixed(d.events,
                      RoundTrip(Request("POST", <<cfg.UploadUrl, "/files/sign">>, <<>>,
                                        JSONHeaders(cfg),
                                        JSONBody(SignedPayload(opts.v, d.date))),
                                resp, "string"))

(***************************************************************************)
(* The arguments the caller passes and the answers of the environment.     *)
(***************************************************************************)
Nets == {"private", "public"}
JWTs == {"jwt-0", "jwt-a", "jwt-b"}
Gateways == {"gw"}
IDs == {"", "f1", "f2", BadEscape}
CIDs == {"", "bafy1"}
Times == {100, 101}

KeyValueMaps ==
    {NilMap, MakeMap("k1" :> "v1"), MakeMap(("k1" :> "v1") @@ ("k2" :> "v2"))}

LinkText == <<Quote, "https://gw/files/x?a=1", EscapedAmp, "b=2", Quote>>

\* The texts a download link may come back as: up to MaxLink tokens, each a
\* quote, an escaped '&' or ordinary text.
LinkTexts == SeqsUpTo({Quote, EscapedAmp, "x"}, MaxLink)

OKBodies == {BodyNotJSON, BodyNoData, BodyNull, BodyObj, BodyArr, BodyStr(LinkText)}

Responses ==
    {NetErr} \cup {HTTP(200, b) : b \in OKBodies}
             \cup {HTTP(201, BodyObj), HTTP(404, BodyText("not found"))}

LinkResponses == Responses \cup {HTTP(200, BodyStr(t)) : t \in LinkTexts}

UploadResponses ==
    {NetErr, HTTP(200, BodyObj), HTTP(200, BodyNull), HTTP(201, BodyObj),
     HTTP(404, BodyText("not found"))}

DeleteResponses ==
    {NetErr, HTTP(200, BodyNoData), HTTP(204, BodyNoData), HTTP(404, BodyText("not found"))}

FetchResponses ==
    {NetErr, HTTP(200, <<7, 8>>), HTTP(200, <<>>), HTTP(404, <<9>>)}

Faults == {"none", "createTemp", "write", "seek", "fileSeek", "fileCopy"}
FileFaults == {"none", "fileSeek", "fileCopy"}

\* What the environment does to an upload: no fault and any answer, or one
\* fault (and then the answer to a request that is sent all the same).
UploadEnvs(faults) ==
    {<<"none", r>> : r \in UploadResponses}
    \cup {<<f, HTTP(200, BodyObj)>> : f \in faults \ {"none"}}

ListOptionsOf(n, g, ng, c, cp, mt, o, pt, lim, kv) ==
    Ptr([Name |-> n, Group |-> g, NoGroup |-> ng, CID |-> c, CIDPending |-> cp,
         MimeType |-> mt, KeyValues |-> kv, Order |-> o, Limit |-> lim, PageToken |-> pt])

ListOptionsSet ==
    {NilPtr}
    \cup {ListOptionsOf(n, g, ng, c, cp, "", "", "", 0, NilMap) :
            n \in {"", "pinnie"}, g \in {"", "g1"}, ng \in BOOLEAN, c \in CIDs,
            cp \in BOOLEAN}
    \cup {ListOptionsOf("", "", FALSE, "", FALSE, mt, o, pt, lim, kv) :
            mt \in {"", "image/png"}, o \in {"", "ASC"}, pt \in {"", "tok"},
            lim \in {-1, 0, 1}, kv \in KeyValueMaps}
    \cup {ListOptionsOf("pinnie", "g1", TRUE, "bafy1", TRUE, "image/png", "ASC", "tok", 1, kv) :
            kv \in KeyValueMaps}

UpdateOptionsSet ==
    {NilPtr} \cup {Ptr([ID |-> id, Name |-> n, KeyValues |-> kv]) :
                     id \in {"", "f1", BadEscape}, n \in {"", "pinnie"},
                     kv \in {NilMap, MakeMap("k1" :> "v1")}}

SwapOptionsSet ==
    {NilPtr} \cup {Ptr([CID |-> c, SwapCID |-> sc]) : c \in CIDs, sc \in {"", "bafy2"}}

SwapHistoryOptionsSet ==
    {NilPtr} \cup {Ptr([CID |-> c, Domain |-> d]) : c \in CIDs, d \in {"", "gw.example", BadEscape}}

AccessLinkOptionsSet ==
    {NilPtr} \cup {Ptr([CID |-> c, Date |-> d, Expires |-> x, Gateway |-> g]) :
                     c \in CIDs, d \in {-5, 0, 100, 5000}, x \in {-1, 0, 30},
                     g \in {"", "other-gw"}}

VectorQueryOptionsSet ==
    {NilPtr} \cup {Ptr([GroupID |-> g, Query |-> q, ReturnFile |-> rf]) :
                     g \in {"", "g1"}, q \in {"", "cats"}, rf \in BOOLEAN}

PinByHashOptionsSet ==
    {NilPtr} \cup {Ptr([CID |-> c, Name |-> n, GroupID |-> g, KeyValues |-> kv, HostNodes |-> hn]) :
                     c \in CIDs, n \in {"", "pinnie"}, g \in {"", "g1"},
                     kv \in {NilMap, MakeMap("k1" :> "v1")}, hn \in {<<>>, <<"node1">>}}

PinQueueOptionsSet ==
    {NilPtr} \cup {Ptr([Sort |-> so, Status |-> st, CID |-> c, Limit |-> lim, PageToken |-> pt]) :
                     so \in {"", "ASC"}, st \in {"", "prechecking"}, c \in CIDs,
                     lim \in {-1, 0, 1}, pt \in {"", "tok"}}

FileOptionsSet ==
    {NilPtr} \cup {Ptr([FileName |-> n, GroupID |-> g, KeyValues |-> kv, Vectorize |-> v]) :
                     n \in {"", "Pinnie"}, g \in {"", "g1"},
                     kv \in {NilMap, MakeMap("k1" :> "v1")}, v \in BOOLEAN}

\* JSONOptions, Base64Options and URLOptions have the same fields.
HelperOptionsSet ==
    {NilPtr} \cup {Ptr([Name |-> n, GroupID |-> x[1], KeyValues |-> x[2], Vectorize |-> x[3]]) :
                     n \in {"", "Pinnie"},
                     x \in {<<"", NilMap, FALSE>>, <<"g1", MakeMap("k1" :> "v1"), TRUE>>}}

SignedOptionsOf(d, x, g, n, kv, v, mfs, mt) ==
    Ptr([Date |-> d, Expires |-> x, GroupID |-> g, Name |-> n, KeyValues |-> kv,
         Vectorize |-> v, MaxFileSize |-> mfs, MimeTypes |-> mt])

SignedUploadOptionsSet ==
    {NilPtr}
    \cup {SignedOptionsOf(0, 30, g, n, kv, v, mfs, mt) :
            g \in {"", "g1"}, n \in {"", "Pinnie"},
            kv \in {NilMap, MakeMap("k1" :> "v1")}, v \in BOOLEAN,
            mfs \in {0, 1024}, mt \in {<<>>, <<"image/png">>}}
    \cup {SignedOptionsOf(d, x, "", "", MakeMap(EmptyMap), FALSE, mfs, <<>>) :
            d \in {-5, 0, 100, 5000}, x \in {-1, 0, 30}, mfs \in {-1, 0}}

JSONData ==
    {[t |-> "nil"], [t |-> "string", s |-> "hello"], [t |-> "number", n |-> 42],
     [t |-> "nilptr"], [t |-> "chan"]}

Base64Data ==
    {<<>>, <<"Q", "Q", "=", "=">>, <<"Q", "g", "/", "=">>, <<"A", "B", "Q", "g">>,
     <<"Q", "Q", "Q", "Q", "/", "/", "=", "=">>, <<"Q", "Q", "Q">>, <<"Q", "*", "Q", "Q">>,
     <<"Q", "=", "=", "=">>, <<"Q", "Q", "=", "=", "Q", "Q", "Q", "Q">>}

TargetURLs ==
    {<<>>, <<"https:", "/", "/", "host", "/", "img", "/", "cat.png">>,
     <<"https:", "/", "/", "host", "/", "img", "/">>,
     <<"https:", "/", "/", "host", "/", "cat.png", "?v=1">>}

Handles == {"h1", "h2"}

(***************************************************************************)
(* The state machine of one caller using one Client.                       *)
(***************************************************************************)
NoCall ==
    [op |-> "none", net |-> "", args |-> <<>>, events |-> <<>>,
     val |-> NilPtr, err |-> NoErr, panic |-> FALSE]

\* The caller's own Config object, for NewWithConfig: custom base URLs and no
\* CustomHeaders map.
CustomConfig(jwt, gateway) ==
    [PinataJWT |-> jwt, PinataGateway |-> gateway,
     APIUrl |-> "https://api.test/v3", UploadUrl |-> "https://uploads.test/v3",
     CustomHeaders |-> NilMap]

\* A second Config object of the caller, which no client is built on.
SpareConfig == NewConfig("jwt-spare", "gw-spare")

UserFiles(offset) ==
    ("h1" :> OpenFile(<<"data", "pinnie.png">>, <<10, 20>>, offset))
    @@ ("h2" :> [OpenFile(<<"data", "old.txt">>, <<30>>, 0) EXCEPT !.closed = TRUE])

\* The state after construction: the caller holds the Client that New or
\* NewWithConfig has just returned.
Constructed(op, args, h, c) ==
    /\ heap = h @@ (2 :> SpareConfig)
    /\ client = c
    /\ last = [op |-> op, net |-> "", args |-> args, events |-> <<>>,
               val |-> Ptr(c), err |-> NoErr, panic |-> FALSE]

InitSeq ==
    /\ \E jwt \in JWTs \ {"jwt-b"}, gateway \in Gateways, custom \in BOOLEAN :
          IF custom
          THEN Constructed("NewWithConfig",
                           [config |-> 1, value |-> CustomConfig(jwt, gateway)],
                           (1 :> CustomConfig(jwt, gateway)), NewWithConfig(1))
          ELSE Constructed("New", [jwt |-> jwt, gateway |-> gateway],
                           New(jwt, gateway, 1).heap, New(jwt, gateway, 1).client)
    /\ ofiles = UserFiles(1)
    /\ disk = {}
    /\ pc = "returned"

\* The goroutine that changes the Config has not started.
WriterIdle == [pc |-> "idle", field |-> ""]

Init ==
    /\ InitSeq
    /\ cwriter = WriterIdle
    /\ cproc = <<>>

FilesPrivateCfg == heap[client.Files.Private.config]
FilesPublicCfg == heap[client.Files.Public.config]
UploadPrivateCfg == heap[client.Upload.Private.config]
FilesCfg(net) == IF net = "private" THEN FilesPrivateCfg ELSE FilesPublicCfg

\* The call returns: the caller holds its result; the disk is what the call's
\* events left of it.
Returns(op, net, args, out) ==
    /\ pc' = "returned"
    /\ last' = [op |-> op, net |-> net, args |-> args, events |-> out.events,
                val |-> out.val, err |-> out.err, panic |-> out.panic]
    /\ disk' = DiskAfter(disk, out.events)
    /\ UNCHANGED <<heap, client, cwriter, cproc>>

PrivateGet ==
    /\ pc = "idle"
    /\ \E id \in IDs, resp \in Responses :
        /\ Returns("Get", "private", [id |-> id], FilesGet("private", FilesPrivateCfg, id, resp))
        /\ UNCHANGED ofiles

PublicGet ==
    /\ pc = "idle"
    /\ \E id \in IDs, resp \in Responses :
        /\ Returns("Get", "public", [id |-> id], FilesGet("public", FilesPublicCfg, id, resp))
        /\ UNCHANGED ofiles

PrivateList ==
    /\ pc = "idle"
    /\ \E opts \in ListOptionsSet, resp \in Responses :
        /\ Returns("List", "private", [opts |-> opts],
                   FilesList("private", FilesPrivateCfg, opts, resp))
        /\ UNCHANGED ofiles

PublicList ==
    /\ pc = "idle"
    /\ \E opts \in ListOptionsSet, resp \in Responses :
        /\ Returns("List", "public", [opts |-> opts],
                   FilesList("public", FilesPublicCfg, opts, resp))
        /\ UNCHANGED ofiles

PrivateUpdate ==
    /\ pc = "idle"
    /\ \E opts \in UpdateOptionsSet, resp \in Responses :
        /\ Returns("Update", "private", [opts |-> opts],
                   FilesUpdate("private", FilesPrivateCfg, opts, resp))
        /\ UNCHANGED ofiles

PublicUpdate ==
    /\ pc = "idle"
    /\ \E opts \in UpdateOptionsSet, resp \in Responses :
        /\ Returns("Update", "public", [opts |-> opts],
                   FilesUpdate("public", FilesPublicCfg, opts, resp))
        /\ UNCHANGED ofiles

DeleteInputs ==
    {x \in SeqsUpTo({"f1", "f2", BadEscape} \X DeleteResponses, MaxIds) : TRUE}

PrivateDelete ==
    /\ pc = "idle"
    /\ \E x \in DeleteInputs :
        LET ids == [i \in 1..Len(x) |-> x[i][1]]
            resps == [i \in 1..Len(x) |-> x[i][2]]
        IN  /\ Returns("Delete", "private", [ids |-> ids],
                       FilesDelete("private", FilesPrivateCfg, ids, resps))
            /\ UNCHANGED ofiles

PublicDelete ==
    /\ pc = "idle"
    /\ \E x \in DeleteInputs :
        LET ids == [i \in 1..Len(x) |-> x[i][1]]
            resps == [i \in 1..Len(x) |-> x[i][2]]
        IN  /\ Returns("Delete", "public", [ids |-> ids],
                       FilesDelete("public", FilesPublicCfg, ids, resps))
            /\ UNCHANGED ofiles

PrivateAddSwap ==
    /\ pc = "idle"
    /\ \E opts \in SwapOptionsSet, resp \in Responses :
        /\ Returns("AddSwap", "private", [opts |-> opts],
                   FilesAddSwap("private", FilesPrivateCfg, opts, resp))
        /\ UNCHANGED ofiles

PublicAddSwap ==
    /\ pc = "idle"
    /\ \E opts \in SwapOptionsSet, resp \in Responses :
        /\ Returns("AddSwap", "public", [opts |-> opts],
                   FilesAddSwap("public", FilesPublicCfg, opts, resp))
        /\ UNCHANGED ofiles

PrivateGetSwapHistory ==
    /\ pc = "idle"
    /\ \E opts \in SwapHistoryOptionsSet, resp \in Responses :
        /\ Returns("GetSwapHistory", "private", [opts |-> opts],
                   FilesGetSwapHistory("private", FilesPrivateCfg, opts, resp))
        /\ UNCHANGED ofiles

PublicGetSwapHistory ==
    /\ pc = "idle"
    /\ \E opts \in SwapHistoryOptionsSet, resp \in Responses :
        /\ Returns("GetSwapHistory", "public", [opts |-> opts],
                   FilesGetSwapHistory("public", FilesPublicCfg, opts, resp))
        /\ UNCHANGED ofiles

PrivateDeleteSwap ==
    /\ pc = "idle"
    /\ \E cid \in CIDs \cup {BadEscape}, resp \in Responses :
        /\ Returns("DeleteSwap", "private", [cid |-> cid],
                   FilesDeleteSwap("private", FilesPrivateCfg, cid, resp))
        /\ UNCHANGED ofiles

PublicDeleteSwap ==
    /\ pc = "idle"
    /\ \E cid \in CIDs \cup {BadEscape}, resp \in Responses :
        /\ Returns("DeleteSwap", "public", [cid |-> cid],
                   FilesDeleteSwap("public", FilesPublicCfg, cid, resp))
        /\ UNCHANGED ofiles

PrivateCreateAccessLink ==
    /\ pc = "idle"
    /\ \E opts \in AccessLinkOptionsSet, now \in Times, resp \in LinkResponses :
        /\ Returns("CreateAccessLink", "private", [opts |-> opts, now |-> now],
                   CreateAccessLink(FilesPrivateCfg, opts, now, resp))
        /\ UNCHANGED ofiles

PrivateVectorize ==
    /\ pc = "idle"
    /\ \E fileID \in IDs, resp \in Responses :
        /\ Returns("Vectorize", "private", [fileID |-> fileID],
                   Vectorize(FilesPrivateCfg, fileID, resp))
        /\ UNCHANGED ofiles

PrivateDeleteVectors ==
    /\ pc = "idle"
    /\ \E fileID \in IDs, resp \in Responses :
        /\ Returns("DeleteVectors", "private", [fileID |-> fileID],
                   DeleteVectors(FilesPrivateCfg, fileID, resp))
        /\ UNCHANGED ofiles

PrivateQueryVectors ==
    /\ pc = "idle"
    /\ \E opts \in VectorQueryOptionsSet, resp \in Responses :
        /\ Returns("QueryVectors", "private", [opts |-> opts],
                   QueryVectors(FilesPrivateCfg, opts, resp))
        /\ UNCHANGED ofiles

PublicPinByHash ==
    /\ pc = "idle"
    /\ \E opts \in PinByHashOptionsSet, resp \in Responses :
        /\ Returns("PinByHash", "public", [opts |-> opts],
                   PinByHash(FilesPublicCfg, opts, resp))
        /\ UNCHANGED ofiles

PublicQueue ==
    /\ pc = "idle"
    /\ \E opts \in PinQueueOptionsSet, resp \in Responses :
        /\ Returns("Queue", "public", [opts |-> opts], Queue(FilesPublicCfg, opts, resp))
        /\ UNCHANGED ofiles

PublicCancelPinRequest ==
    /\ pc = "idle"
    /\ \E id \in IDs, resp \in Responses :
        /\ Returns("CancelPinRequest", "public", [id |-> id],
                   CancelPinRequest(FilesPublicCfg, id, resp))
        /\ UNCHANGED ofiles

ClientTestAuthentication ==
    /\ pc = "idle"
    /\ \E resp \in Responses :
        /\ Returns("TestAuthentication", "", <<>>, TestAuthentication(heap[client.Config], resp))
        /\ UNCHANGED ofiles

ClientTestAuthenticationStub ==
    /\ pc = "idle"
    /\ Returns("TestAuthentication", "", [impl |-> "stub"], TestAuthenticationStub)
    /\ UNCHANGED ofiles

UploadFile ==
    /\ pc = "idle"
    /\ \E h \in Handles \cup {"nil"}, opts \in FileOptionsSet, env \in UploadEnvs(FileFaults) :
        LET file == IF h = "nil" THEN NilFile ELSE ofiles[h]
            out == File(UploadPrivateCfg, file, opts, env[1], env[2])
        IN  /\ Returns("File", "private", [file |-> file, opts |-> opts], out)
            /\ ofiles' = IF h = "nil" THEN ofiles ELSE [ofiles EXCEPT ![h] = out.file]

UploadFileArray ==
    /\ pc = "idle"
    /\ \E hs \in SeqsUpTo(Handles, MaxFiles), opts \in FileOptionsSet, resp \in UploadResponses :
        LET files == [i \in 1..Len(hs) |-> ofiles[hs[i]]]
            out == FileArray(UploadPrivateCfg, files, opts, resp)
        IN  /\ Returns("FileArray", "private", [files |-> files, opts |-> opts], out)
            /\ ofiles' = [h \in Handles |->
                            IF \E i \in 1..Len(hs) : hs[i] = h
                            THEN out.files[CHOOSE i \in 1..Len(hs) : hs[i] = h]
                            ELSE ofiles[h]]

UploadJSON ==
    /\ pc = "idle"
    /\ \E data \in JSONData, opts \in HelperOptionsSet, env \in UploadEnvs(Faults) :
        /\ Returns("JSON", "private", [data |-> data, opts |-> opts],
                   JSON(UploadPrivateCfg, data, opts, env[1], env[2], disk))
        /\ UNCHANGED ofiles

UploadBase64 ==
    /\ pc = "idle"
    /\ \E data \in Base64Data, opts \in HelperOptionsSet, env \in UploadEnvs(Faults) :
        /\ Returns("Base64", "private", [data |-> data, opts |-> opts],
                   Base64(UploadPrivateCfg, data, opts, env[1], env[2], disk))
        /\ UNCHANGED ofiles

UploadURL ==
    /\ pc = "idle"
    /\ \E targetURL \in TargetURLs, opts \in HelperOptionsSet, env \in UploadEnvs(Faults),
          fetched \in FetchResponses :
        /\ Returns("URL", "private", [targetURL |-> targetURL, opts |-> opts],
                   URL(UploadPrivateCfg, targetURL, opts, env[1], fetched, env[2], disk))
        /\ UNCHANGED ofiles

UploadCreateSignedURL ==
    /\ pc = "idle"
    /\ \E opts \in SignedUploadOptionsSet, now \in Times, resp \in Responses :
        /\ Returns("CreateSignedURL", "private", [opts |-> opts, now |-> now],
                   CreateSignedURL(UploadPrivateCfg, opts, now, resp))
        /\ UNCHANGED ofiles

(***************************************************************************)
(* The caller between two calls: it takes the result, and it may change    *)
(* the configuration through Client.Config.                                *)
(***************************************************************************)
TakeResult ==
    /\ pc = "returned"
    /\ pc' = "idle"
    /\ last' = NoCall
    /\ UNCHANGED <<heap, client, ofiles, disk, cwriter, cproc>>

SetJWT ==
    /\ pc = "idle"
    /\ \E jwt \in JWTs \ {"jwt-0"} :
        /\ heap' = [heap EXCEPT ![client.Config].PinataJWT = jwt]
        /\ UNCHANGED <<client, ofiles, disk, pc, last, cwriter, cproc>>

\* client.Config.CustomHeaders[key] = value, on a map that is not nil.
SetCustomHeader ==
    /\ pc = "idle"
    /\ \E key \in {"X-Trace"}, value \in {<<"t1">>} :
        /\ ~heap[client.Config].CustomHeaders.nil
        /\ heap' = [heap EXCEPT ![client.Config].CustomHeaders.m = (key :> value) @@ @]
        /\ UNCHANGED <<client, ofiles, disk, pc, last, cwriter, cproc>>

Next ==
    \/ PrivateGet \/ PublicGet
    \/ PrivateList \/ PublicList
    \/ PrivateUpdate \/ PublicUpdate
    \/ PrivateDelete \/ PublicDelete
    \/ PrivateAddSwap \/ PublicAddSwap
    \/ PrivateGetSwapHistory \/ PublicGetSwapHistory
    \/ PrivateDeleteSwap \/ PublicDeleteSwap
    \/ PrivateCreateAccessLink
    \/ PrivateVectorize \/ PrivateDeleteVectors \/ PrivateQueryVectors
    \/ PublicPinByHash \/ PublicQueue \/ PublicCancelPinRequest
    \/ ClientTestAuthentication \/ ClientTestAuthenticationStub
    \/ UploadFile \/ UploadFileArray
    \/ UploadJSON \/ UploadBase64 \/ UploadURL
    \/ UploadCreateSignedURL
    \/ TakeResult \/ SetJWT \/ SetCustomHeader

Spec == Init /\ [][Next]_vars

(***************************************************************************)
(* Concurrent use of one Client.  Two goroutines each call                 *)
(* client.Upload.Private.File, and a third goroutine of the caller assigns *)
(* client.Config.PinataJWT or an entry of client.Config.CustomHeaders.     *)
(* File is taken apart into the steps at which it touches what the         *)
(* goroutines share: the offset of the *os.File (Seek, and each Read of    *)
(* io.Copy, which reads one chunk at the offset and advances it) and the   *)
(* Config object behind the pointer (PinataJWT, CustomHeaders).  The SDK   *)
(* takes no lock, so the steps interleave freely.  A read of a Config      *)
(* field while its assignment is under way is a data race: the string may  *)
(* be seen old, new or torn; the map range may see the old map, the new    *)
(* map, or end the process ("concurrent map iteration and map write").     *)
(*                                                                         *)
(* Each goroutine also keeps, for the record, what the same call would     *)
(* have done alone from the state at its start (seq) and from the Config   *)
(* at its end (seqEnd), and what went on during the call (during).         *)
(***************************************************************************)
Procs == {1, 2}
ConcFiles == [UserFiles(1) EXCEPT !["h2"].closed = FALSE]
ConcOptions == {NilPtr, Ptr([FileName |-> "Pinnie", GroupID |-> "", KeyValues |-> NilMap,
                             Vectorize |-> FALSE])}
ConcResponses == {HTTP(200, BodyObj), HTTP(404, BodyText("not found"))}
TornString == "<torn>"
NewJWT == "jwt-b"
NewHeader == ("X-Trace" :> <<"t1">>)

ProcReady ==
    [pc |-> "ready", h |-> "", opts |-> NilPtr, resp |-> NetErr, buf |-> <<>>,
     jwt |-> "", custom |-> NilMap, out |-> NoCall, seq |-> NoCall, seqEnd |-> NoCall,
     during |-> {}]

MidCall(q) == cproc[q].pc \in {"seek", "copy", "auth", "headers", "send"}

ResultOf(out) == [f \in {"events", "val", "err", "panic"} |-> out[f]]

\* What goroutine p's step adds to the record of the calls it runs beside.
Beside(procs, p) ==
    [q \in Procs |->
        IF q # p /\ procs[q].pc \in {"seek", "copy", "auth", "headers", "send"}
        THEN [procs[q] EXCEPT !.during =
                 @ \cup {"peer"} \cup (IF procs[q].h = procs[p].h THEN {"samefile"} ELSE {})]
        ELSE procs[q]]

WrittenDuring(procs) ==
    [q \in Procs |->
        IF procs[q].pc \in {"seek", "copy", "auth", "headers", "send"}
        THEN [procs[q] EXCEPT !.during = @ \cup {"write"}]
        ELSE procs[q]]

ConcUnchanged == UNCHANGED <<client, disk, pc, last>>

\* File is called: the nil check and file.Stat.
ConcStart(p) ==
    /\ cproc[p].pc = "ready"
    /\ \E h \in Handles, opts \in ConcOptions, resp \in ConcResponses :
          cproc' = Beside([cproc EXCEPT ![p] =
                      [@ EXCEPT !.pc = "seek", !.h = h, !.opts = opts, !.resp = resp,
                                !.seq = ResultOf(File(UploadPrivateCfg, ofiles[h], opts,
                                                      "none", resp)),
                                !.during = IF cwriter.pc = "writing" THEN {"write"} ELSE {}]],
                          p)
    /\ UNCHANGED <<heap, ofiles, cwriter>>
    /\ ConcUnchanged

\* A mutant of ConcSeek: the offset is left where it stands.
ConcSeekSkip(p) ==
    /\ cproc[p].pc = "seek"
    /\ cproc' = Beside([cproc EXCEPT ![p].pc = "copy"], p)
    /\ UNCHANGED <<heap, ofiles, cwriter>>
    /\ ConcUnchanged

\* file.Seek(0, 0), then the form fields, which are built from the arguments.
ConcSeek(p) ==
    /\ cproc[p].pc = "seek"
    /\ ofiles' = [ofiles EXCEPT ![cproc[p].h].offset = 0]
    /\ cproc' = Beside([cproc EXCEPT ![p].pc = "copy"], p)
    /\ UNCHANGED <<heap, cwriter>>
    /\ ConcUnchanged

\* One Read of io.Copy(part, file): the chunk at the file's offset, or the end.
ConcCopy(p) ==
    /\ cproc[p].pc = "copy"
    /\ LET file == ofiles[cproc[p].h]
       IN  IF file.offset < Len(file.content)
           THEN /\ ofiles' = [ofiles EXCEPT ![cproc[p].h].offset = @ + 1]
                /\ cproc' = Beside([cproc EXCEPT ![p].buf =
                                        Append(@, file.content[file.offset + 1])], p)
           ELSE /\ ofiles' = ofiles
                /\ cproc' = Beside([cproc EXCEPT ![p].pc = "auth"], p)
    /\ UNCHANGED <<heap, cwriter>>
    /\ ConcUnchanged

\* "Bearer "+cfg.PinataJWT.
ConcAuth(p) ==
    /\ cproc[p].pc = "auth"
    /\ \E jwt \in {UploadPrivateCfg.PinataJWT, NewJWT, TornString} :
          /\ jwt # UploadPrivateCfg.PinataJWT =>
                (cwriter.pc = "writing" /\ cwriter.field = "PinataJWT")
          /\ cproc' = Beside([cproc EXCEPT ![p] = [@ EXCEPT !.pc = "headers", !.jwt = jwt]], p)
    /\ UNCHANGED <<heap, ofiles, cwriter>>
    /\ ConcUnchanged

\* for key, value := range cfg.CustomHeaders.
ConcHeaders(p) ==
    /\ cproc[p].pc = "headers"
    /\ \E custom \in {UploadPrivateCfg.CustomHeaders, MakeMap(NewHeader)} :
          /\ custom # UploadPrivateCfg.CustomHeaders =>
                (cwriter.pc = "writing" /\ cwriter.field = "CustomHeaders")
          /\ cproc' = Beside([cproc EXCEPT ![p] =
                                 [@ EXCEPT !.pc = "send", !.custom = custom]], p)
    /\ UNCHANGED <<heap, ofiles, cwriter>>
    /\ ConcUnchanged

\* The runtime detects the map range racing with the map assignment and ends
\* the process: no call in progress returns.
ConcFatal(p) ==
    /\ cproc[p].pc = "headers"
    /\ cwriter.pc = "writing" /\ cwriter.field = "CustomHeaders"
    /\ cproc' = [q \in Procs |-> IF MidCall(q) THEN [cproc[q] EXCEPT !.pc = "crashed"]
                                 ELSE cproc[q]]
    /\ cwriter' = [cwriter EXCEPT !.pc = "crashed"]
    /\ UNCHANGED <<heap, ofiles>>
    /\ ConcUnchanged

\* client.Do and the decoding of the answer; File returns.
ConcSend(p) ==
    /\ cproc[p].pc = "send"
    /\ LET me == cproc[p]
           file == ofiles[me.h]
           cfg == [UploadPrivateCfg EXCEPT !.PinataJWT = me.jwt, !.CustomHeaders = me.custom]
           req == Request("POST", UploadFilesURL(cfg), <<>>, MultipartHeaders(cfg),
                          MultipartBody(FileFields(file, me.opts), <<FilePart(file, me.buf)>>))
           out == Prefixed(<<SeekEv(file.name), CopyEv(file.name, me.buf)>>,
                           RoundTrip(req, me.resp, "ptr"))
       IN  cproc' = Beside([cproc EXCEPT ![p] =
                      [@ EXCEPT !.pc = "done", !.out = out,
                                !.seqEnd = ResultOf(File(UploadPrivateCfg, file, me.opts,
                                                         "none", me.resp))]], p)
    /\ UNCHANGED <<heap, ofiles, cwriter>>
    /\ ConcUnchanged

\* The caller starts to assign client.Config.PinataJWT or
\* client.Config.CustomHeaders["X-Trace"].
ConcBeginWrite ==
    /\ cwriter.pc = "idle"
    /\ \E field \in {"PinataJWT", "CustomHeaders"} :
          cwriter' = [pc |-> "writing", field |-> field]
    /\ cproc' = WrittenDuring(cproc)
    /\ UNCHANGED <<heap, ofiles>>
    /\ ConcUnchanged

\* The assignment is complete.
ConcEndWrite ==
    /\ cwriter.pc = "writing"
    /\ heap' = IF cwriter.field = "PinataJWT"
               THEN [heap EXCEPT ![client.Config].PinataJWT = NewJWT]
               ELSE [heap EXCEPT ![client.Config].CustomHeaders = MakeMap(NewHeader)]
    /\ cwriter' = [cwriter EXCEPT !.pc = "done"]
    /\ cproc' = WrittenDuring(cproc)
    /\ UNCHANGED ofiles
    /\ ConcUnchanged

InitConc ==
    /\ heap = New("jwt-a", "gw.example", 1).heap @@ (2 :> SpareConfig)
    /\ client = New("jwt-a", "gw.example", 1).client
    /\ ofiles = ConcFiles
    /\ disk = {}
    /\ pc = "concurrent"
    /\ last = NoCall
    /\ cwriter = WriterIdle
    /\ cproc = [p \in Procs |-> ProcReady]

NextConc ==
    \/ \E p \in Procs :
          \/ ConcStart(p) \/ ConcSeek(p) \/ ConcCopy(p)
          \/ ConcAuth(p) \/ ConcHeaders(p) \/ ConcFatal(p) \/ ConcSend(p)
    \/ ConcBeginWrite
    \/ ConcEndWrite

SpecConc == InitConc /\ [][NextConc]_vars

(***************************************************************************)
(* What the properties below read off the call that has returned.          *)
(***************************************************************************)
IsSend(ev) == ev.e = "send"
SendsOf(events) == SelectSeq(events, IsSend)
NumSends == Len(SendsOf(last.events))
Returned == pc = "returned" /\ last.op \notin {"none", "New", "NewWithConfig"}

\* The errors a method returns once client.Do has been called.
AfterSendErrors ==
    {"nil", "failed to send request", "API error", "authentication failed",
     "failed to decode response", "failed to fetch URL content",
     "URL returned non-OK status"}
ReachedSend == ~last.panic /\ last.err.kind \in AfterSendErrors

FailedResp(resp) == resp.kind = "neterr" \/ resp.status # 200
NonOKResp(resp) == resp.kind = "http" /\ resp.status # 200

NoSendAfter(i) ==
    \A j \in (i + 1)..Len(last.events) : ~IsSend(last.events[j])

\* The zero value of the operation's result type.
ZeroResult ==
    CASE last.op \in {"Delete", "GetSwapHistory"} -> last.val = NilSlice
      [] last.op \in {"CreateSignedURL", "CreateAccessLink"} -> last.val = <<>>
      [] last.op = "TestAuthentication" -> last.val = FALSE
      [] OTHER -> last.val = NilPtr

\* In the URL helper the first request is the GET of the target URL.
IsFetch(i) == last.op = "URL" /\ \A j \in 1..(i - 1) : ~IsSend(last.events[j])

(***************************************************************************)
(* C1 (as stated): every operation whose arguments pass its validation and *)
(* that gets as far as the network sends exactly one HTTP request during   *)
(* the call, Delete with n IDs and the URL helper included.                *)
(***************************************************************************)
C1_ExactlyOneRequest == (Returned /\ ReachedSend) => NumSends = 1

(***************************************************************************)
(* C1 (amended): every operation other than Delete and URL sends at most   *)
(* one request, and exactly one once it gets as far as the network; Delete *)
(* with n IDs sends one request per ID, at most n and exactly n when it    *)
(* succeeds; URL sends the GET of the target first and then at most one    *)
(* upload request, two requests in all when it succeeds.  The              *)
(* TestAuthentication whose body is "return true, nil" sends none.         *)
(***************************************************************************)
C1_RequestsPerCall ==
    Returned =>
        CASE last.op = "Delete" ->
                /\ NumSends <= Len(last.args.ids)
                /\ (ReachedSend => NumSends >= 1)
                /\ (last.err = NoErr => NumSends = Len(last.args.ids))
                /\ \A i \in 1..NumSends :
                      SendsOf(last.events)[i].req.url[5] = last.args.ids[i]
          [] last.op = "URL" ->
                /\ NumSends <= 2
                /\ (ReachedSend => NumSends >= 1)
                /\ (last.err = NoErr /\ ~last.panic => NumSends = 2)
                /\ (NumSends >= 1 =>
                      SendsOf(last.events)[1].req = FetchRequest(last.args.targetURL))
                /\ (NumSends = 2 => SendsOf(last.events)[2].req.method = "POST")
          [] last.op = "TestAuthentication" /\ last.args = [impl |-> "stub"] ->
                NumSends = 0
          [] OTHER ->
                /\ NumSends <= 1
                /\ (ReachedSend => NumSends = 1)

C1_Witness ==
    /\ Returned /\ last.op = "Delete" /\ last.err = NoErr /\ NumSends = 2

(***************************************************************************)
(* C2: no operation retries.  A request that failed (transport error or a  *)
(* status other than 200) is the last request of its call, and the call    *)
(* returns an error.                                                       *)
(***************************************************************************)
C2_NoRetry ==
    Returned =>
        \A i \in 1..Len(last.events) :
            (IsSend(last.events[i]) /\ FailedResp(last.events[i].resp)) =>
                /\ NoSendAfter(i)
                /\ ~last.panic
                /\ last.err # NoErr

C2_Witness ==
    /\ Returned /\ last.op = "Delete" /\ NumSends = 2
    /\ FailedResp(SendsOf(last.events)[2].resp)
    /\ last.args.ids[1] = last.args.ids[2]

(***************************************************************************)
(* C3 (as stated): whenever a request of an operation is answered with a   *)
(* status other than 200, the operation returns a non-nil error carrying   *)
(* the status code and the response body, returns the zero value, and      *)
(* sends nothing more.                                                     *)
(***************************************************************************)
C3_ErrorCarriesStatusAndBody ==
    Returned =>
        \A i \in 1..Len(last.events) :
            (IsSend(last.events[i]) /\ NonOKResp(last.events[i].resp)) =>
                /\ last.err # NoErr /\ ~last.panic
                /\ "status" \in DOMAIN last.err
                /\ last.err.status = last.events[i].resp.status
                /\ "body" \in DOMAIN last.err
                /\ last.err.body = last.events[i].resp.body
                /\ ZeroResult
                /\ NoSendAfter(i)

(***************************************************************************)
(* C3 (amended): the same, except that the error the URL helper returns    *)
(* when the fetch of the target URL is answered with a status other than   *)
(* 200 carries the status code only, not the body.                         *)
(***************************************************************************)
C3_ErrorPassThrough ==
    Returned =>
        \A i \in 1..Len(last.events) :
            (IsSend(last.events[i]) /\ NonOKResp(last.events[i].resp)) =>
                /\ last.err # NoErr /\ ~last.panic
                /\ "status" \in DOMAIN last.err
                /\ last.err.status = last.events[i].resp.status
                /\ IF IsFetch(i)
                   THEN "body" \notin DOMAIN last.err
                   ELSE "body" \in DOMAIN last.err
                        /\ last.err.body = last.events[i].resp.body
                /\ ZeroResult
                /\ NoSendAfter(i)

C3_Witness ==
    /\ Returned /\ last.op = "File" /\ NumSends = 1
    /\ SendsOf(last.events)[1].resp = HTTP(201, BodyObj)
    /\ last.err = ErrAPI(201, BodyObj) /\ last.val = NilPtr

(***************************************************************************)
(* The content a helper has to stage, written out for each input: the JSON *)
(* text of the data, the bytes the base64 text stands for, the body        *)
(* fetched from the target URL.                                            *)
(***************************************************************************)
ExpectedJSON(data) ==
    CASE data = [t |-> "string", s |-> "hello"] -> <<"\"", "hello", "\"">>
      [] data = [t |-> "number", n |-> 42] -> <<"42">>
      [] data = [t |-> "nilptr"] -> <<"null">>

ExpectedBase64(data) ==
    CASE data = <<"Q", "Q", "=", "=">> -> <<65>>
      [] data = <<"Q", "g", "/", "=">> -> <<66, 15>>
      [] data = <<"A", "B", "Q", "g">> -> <<0, 20, 32>>
      [] data = <<"Q", "Q", "Q", "Q", "/", "/", "=", "=">> -> <<65, 4, 16, 255>>

StagedContent ==
    CASE last.op = "JSON" -> ExpectedJSON(last.args.data)
      [] last.op = "Base64" -> ExpectedBase64(last.args.data)
      [] last.op = "URL" -> last.events[1].resp.body

IsUpload(ev) == IsSend(ev) /\ ev.req.method = "POST"
IsHelper == last.op \in {"JSON", "Base64", "URL"}

(***************************************************************************)
(* C4: in JSON, Base64 and URL, an upload request is sent only after the   *)
(* temporary file was created, the whole content written to it and the     *)
(* file rewound, in that order, and File reads the file only after that;   *)
(* the bytes of the request's one "file" part are the staged content.      *)
(***************************************************************************)
C4_StageThenUpload ==
    (Returned /\ IsHelper) =>
        \A i \in 1..Len(last.events) :
            IsUpload(last.events[i]) =>
                \E a, b, c \in 1..(i - 1) :
                    /\ a < b /\ b < c
                    /\ last.events[a].e = "createTemp"
                    /\ last.events[b] = WriteEv(last.events[a].name, StagedContent)
                    /\ last.events[c] = SeekEv(last.events[a].name)
                    /\ \A j \in 1..i : last.events[j].e = "copy" => j > c
                    /\ \A j \in 1..i : last.events[j].e # "remove"
                    /\ Len(last.events[i].req.body.parts) = 1
                    /\ last.events[i].req.body.parts[1].field = "file"
                    /\ last.events[i].req.body.parts[1].bytes = StagedContent

C4_Witness ==
    /\ Returned /\ last.op = "Base64" /\ last.err = NoErr /\ ~last.panic
    /\ last.args.data = <<"Q", "g", "/", "=">>
    /\ \E i \in 1..Len(last.events) :
          IsUpload(last.events[i]) /\ last.events[i].req.body.parts[1].bytes = <<66, 15>>

SignedKeys(o) ==
    {"date", "expires", "network"}
    \cup (IF o.GroupID # "" THEN {"group_id"} ELSE {})
    \cup (IF o.Name # "" THEN {"filename"} ELSE {})
    \cup (IF o.KeyValues.m # EmptyMap THEN {"keyvalues"} ELSE {})
    \cup (IF o.Vectorize THEN {"vectorize"} ELSE {})
    \cup (IF o.MaxFileSize > 0 THEN {"max_file_size"} ELSE {})
    \cup (IF o.MimeTypes # <<>> THEN {"allow_mime_types"} ELSE {})

C6_SignedPayloadKeys ==
    (Returned /\ last.op = "CreateSignedURL") =>
        \A i \in 1..Len(last.events) :
            IsSend(last.events[i]) =>
                LET payload == last.events[i].req.body.payload
                    o == last.args.opts.v
                IN  /\ DOMAIN payload = SignedKeys(o)
                    /\ payload.expires = o.Expires
                    /\ payload.network = "private"

C6_Witness ==
    /\ Returned /\ last.op = "CreateSignedURL" /\ NumSends = 1
    /\ DOMAIN SendsOf(last.events)[1].req.body.payload
         = {"date", "expires", "network", "max_file_size", "allow_mime_types"}

(***************************************************************************)
(* C7: CreateSignedURL with nil options or Expires <= 0, and               *)
(* CreateAccessLink with nil options, an empty CID or Expires <= 0, return *)
(* an error and send nothing; every request the two send has expires > 0.  *)
(***************************************************************************)
TimeLimitedArgsInvalid ==
    \/ last.args.opts.nil
    \/ last.args.opts.v.Expires <= 0
    \/ (last.op = "CreateAccessLink" /\ last.args.opts.v.CID = "")

C7_AlwaysTimeLimited ==
    (Returned /\ last.op \in {"CreateSignedURL", "CreateAccessLink"}) =>
        /\ TimeLimitedArgsInvalid =>
              (last.err # NoErr /\ last.val = <<>> /\ last.events = <<>>)
        /\ \A i \in 1..Len(last.events) :
              IsSend(last.events[i]) => last.events[i].req.body.payload.expires > 0

C7_Witness ==
    /\ Returned /\ last.op = "CreateAccessLink"
    /\ ~last.args.opts.nil /\ last.args.opts.v.CID # "" /\ last.args.opts.v.Expires = 0
    /\ last.err = ErrRequired("CID and expiration time") /\ last.events = <<>>

(***************************************************************************)
(* C8: in CreateSignedURL and CreateAccessLink the date sent is opts.Date  *)
(* whenever opts.Date is not 0 (negative and future values included, the   *)
(* clock is then not read), and is the Unix time read from the clock when  *)
(* opts.Date is 0.                                                         *)
(***************************************************************************)
ClockReads == SelectSeq(last.events, LAMBDA ev : ev.e = "now")

C8_DateOrNow ==
    (Returned /\ last.op \in {"CreateSignedURL", "CreateAccessLink"}) =>
        \A i \in 1..Len(last.events) :
            IsSend(last.events[i]) =>
                LET sent == last.events[i].req.body.payload.date
                    date == last.args.opts.v.Date
                IN  IF date = 0
                    THEN sent = last.args.now /\ ClockReads = <<ReadClock(last.args.now)>>
                    ELSE sent = date /\ ClockReads = <<>>

C8_Witness ==
    /\ Returned /\ last.op = "CreateSignedURL" /\ NumSends = 1
    /\ last.args.opts.v.Date = -5
    /\ SendsOf(last.events)[1].req.body.payload.date = -5
    /\ last.args.now = 100

(***************************************************************************)
(* C9 (as stated): concurrent calls on one Client share no mutable state.  *)
(* Every File call that runs beside another call or beside a change of the *)
(* Config returns, and its events and result are those of the call run     *)
(* alone, before or after the change.                                      *)
(***************************************************************************)
C9_NoSharedState ==
    \A p \in Procs :
        /\ cproc[p].pc # "crashed"
        /\ cproc[p].pc = "done" => cproc[p].out \in {cproc[p].seq, cproc[p].seqEnd}

(***************************************************************************)
(* C9 (amended): calls on one Client share the Config object and whatever  *)
(* *os.File the caller passes.  A File call during which no other call     *)
(* used the same *os.File and the Config was not being changed returns,    *)
(* and its events and result are those of the call run alone; a call ends  *)
(* the process only when the Config was changed while it ran.              *)
(***************************************************************************)
C9_IndependentWhenUnshared ==
    \A p \in Procs :
        /\ cproc[p].pc = "crashed" => "write" \in cproc[p].during
        /\ (cproc[p].pc = "done" /\ cproc[p].during \cap {"samefile", "write"} = {}) =>
              /\ cproc[p].out = cproc[p].seq
              /\ cproc[p].out.events[2].bytes = ofiles[cproc[p].h].content

C9_Witness ==
    /\ cproc[1].pc = "done" /\ cproc[2].pc = "done"
    /\ cproc[1].during = {"peer"} /\ cproc[2].during = {"peer"}
    /\ cproc[1].h = "h1" /\ cproc[2].h = "h2"
    /\ cproc[1].out = cproc[1].seq /\ cproc[1].out.err = NoErr
    /\ cproc[1].out.events[2].bytes = <<10, 20>>
    /\ cproc[2].out.events[2].bytes = <<30>>

(***************************************************************************)
(* C10: the Client that New(jwt, gateway) returns has a Config with the    *)
(* given JWT and gateway, APIUrl "https://api.pinata.cloud/v3", UploadUrl  *)
(* "https://uploads.pinata.cloud/v3" and an empty, non-nil CustomHeaders   *)
(* map; NewWithConfig stores the pointer it is given and leaves the object *)
(* as it was; every service of the Client holds the very pointer that      *)
(* Client.Config holds, so every API request of a call is built from the   *)
(* Config as it is at the time of the call, later changes included.        *)
(***************************************************************************)
ServicePointers ==
    {client.Files.config, client.Files.Public.config, client.Files.Private.config,
     client.Upload.config, client.Upload.Private.config}

FieldNames(fields) == {fields[i][1] : i \in 1..Len(fields)}
FieldValues(fields, name) ==
    LET named == SelectSeq(fields, LAMBDA f : f[1] = name)
    IN  [i \in 1..Len(named) |-> named[i][2]]
DiskName(file) == file.name[Len(file.name)]

(***************************************************************************)
(* C11: in File with options, the one "name" form field is opts.FileName   *)
(* if that is not empty and the name of the file on disk otherwise; the    *)
(* file name of the "file" part is the base name of the file on disk,      *)
(* whatever opts.FileName is.                                              *)
(***************************************************************************)
C11_NameFieldAndPartName ==
    (Returned /\ last.op = "File") =>
        \A i \in 1..Len(last.events) :
            IsSend(last.events[i]) =>
                LET body == last.events[i].req.body
                    opts == last.args.opts
                IN  /\ Len(body.parts) = 1
                    /\ body.parts[1].filename = DiskName(last.args.file)
                    /\ ~opts.nil =>
                          FieldValues(body.fields, "name") =
                              <<IF opts.v.FileName # "" THEN opts.v.FileName
                                ELSE DiskName(last.args.file)>>

C11_Witness ==
    /\ Returned /\ last.op = "File" /\ NumSends = 1
    /\ ~last.args.opts.nil /\ last.args.opts.v.FileName = "Pinnie"
    /\ FieldValues(SendsOf(last.events)[1].req.body.fields, "name") = <<"Pinnie">>
    /\ SendsOf(last.events)[1].req.body.parts[1].filename = "pinnie.png"

(***************************************************************************)
(* C12: List sends a query parameter for exactly the options that are set  *)
(* (name, group, cid, mimeType, order, pageToken when the string is not    *)
(* empty, group=null for NoGroup, cidPending=true for CIDPending, limit    *)
(* for Limit > 0, keyvalues[k] for each entry of KeyValues); without any   *)
(* option set the URL has no "?" and no query; and every parameter name    *)
(* carries at most one value, also when Group and NoGroup are both set.    *)
(***************************************************************************)
ListParamNames(opts) ==
    IF opts.nil THEN {}
    ELSE LET o == opts.v
         IN  (IF o.Name # "" THEN {"name"} ELSE {})
             \cup (IF o.Group # "" \/ o.NoGroup THEN {"group"} ELSE {})
             \cup (IF o.CID # "" THEN {"cid"} ELSE {})
             \cup (IF o.CIDPending THEN {"cidPending"} ELSE {})
             \cup (IF o.MimeType # "" THEN {"mimeType"} ELSE {})
             \cup (IF o.Order # "" THEN {"order"} ELSE {})
             \cup (IF o.Limit > 0 THEN {"limit"} ELSE {})
             \cup (IF o.PageToken # "" THEN {"pageToken"} ELSE {})
             \cup {"keyvalues[" \o k \o "]" : k \in DOMAIN o.KeyValues.m}

C12_ListQuery ==
    (Returned /\ last.op = "List") =>
        \A i \in 1..Len(last.events) :
            IsSend(last.events[i]) =>
                LET req == last.events[i].req
                    names == ListParamNames(last.args.opts)
                IN  /\ FieldNames(req.query) = names
                    /\ (\E j \in 1..Len(req.url) : req.url[j] = "?") <=> names # {}
                    /\ \A name \in names : Len(FieldValues(req.query, name)) = 1

(***************************************************************************)
(* C13: File and FileArray send "network" always, "group_id" exactly when  *)
(* GroupID is not empty and "keyvalues" exactly when KeyValues is not      *)
(* empty, and each option the caller sets (FileName, GroupID, KeyValues,   *)
(* Vectorize) makes the request differ from the one sent without it.       *)
(***************************************************************************)
UploadRequest(opts) ==
    IF last.op = "File"
    THEN SendsOf(File(UploadPrivateCfg, last.args.file, opts, "none",
                      HTTP(200, BodyObj)).events)[1].req
    ELSE SendsOf(FileArray(UploadPrivateCfg, last.args.files, opts,
                           HTTP(200, BodyObj)).events)[1].req

OptionsWithout(o) ==
    (IF o.FileName # "" THEN {[o EXCEPT !.FileName = ""]} ELSE {})
    \cup (IF o.GroupID # "" THEN {[o EXCEPT !.GroupID = ""]} ELSE {})
    \cup (IF MapLen(o.KeyValues) > 0 THEN {[o EXCEPT !.KeyValues = NilMap]} ELSE {})
    \cup (IF o.Vectorize THEN {[o EXCEPT !.Vectorize = FALSE]} ELSE {})

C13_EveryOptionSent ==
    (Returned /\ last.op \in {"File", "FileArray"}) =>
        \A i \in 1..Len(last.events) :
            IsSend(last.events[i]) =>
                LET req == last.events[i].req
                    opts == last.args.opts
                    names == FieldNames(req.body.fields)
                IN  /\ FieldValues(req.body.fields, "network") = <<"private">>
                    /\ "group_id" \in names <=> (~opts.nil /\ opts.v.GroupID # "")
                    /\ "keyvalues" \in names <=> (~opts.nil /\ MapLen(opts.v.KeyValues) > 0)
                    /\ ~opts.nil =>
                          \A without \in OptionsWithout(opts.v) :
                              req # UploadRequest(Ptr(without))

C12_Witness ==
    /\ Returned /\ last.op = "List" /\ NumSends = 1
    /\ last.args.opts = ListOptionsOf("", "g1", TRUE, "", FALSE, "", "", "", 0, NilMap)
    /\ SendsOf(last.events)[1].req.query = <<<<"group", "g1">>, <<"group", "null">>>>

C13_Witness ==
    /\ Returned /\ last.op = "File" /\ NumSends = 1
    /\ last.args.opts = Ptr([FileName |-> "", GroupID |-> "", KeyValues |-> NilMap,
                             Vectorize |-> TRUE])
    /\ SendsOf(last.events)[1].req.body.fields
         = <<<<"network", "private">>, <<"name", "pinnie.png">>>>

(***************************************************************************)
(* C14: TestAuthentication returns (true, nil) exactly when it has asked   *)
(* the authentication endpoint with the configured JWT and the answer was  *)
(* 200, and returns false with an error after a transport error or any     *)
(* other status.                                                           *)
(***************************************************************************)
C14_TestsTheJWT ==
    (Returned /\ last.op = "TestAuthentication") =>
        LET sends == SendsOf(last.events)
            accepted ==
                /\ Len(sends) = 1
                /\ sends[1].req.method = "GET"
                /\ sends[1].req.url = <<"https://api.pinata.cloud/data/testAuthentication">>
                /\ sends[1].req.headers["Authorization"]
                     = <<"Bearer ", heap[client.Config].PinataJWT>>
                /\ sends[1].resp.kind = "http"
                /\ sends[1].resp.status = 200
        IN  IF accepted THEN last.val = TRUE /\ last.err = NoErr
            ELSE last.val = FALSE /\ last.err # NoErr

C14_Witness ==
    /\ Returned /\ last.op = "TestAuthentication"
    /\ last.events = <<>>
    /\ last.val = TRUE /\ last.err = NoErr

(***************************************************************************)
(* C15: validation precedes the network.  A call whose arguments fail the  *)
(* operation's validation returns an error and has done nothing: no HTTP   *)
(* request was sent and no temporary file was created.                     *)
(***************************************************************************)
ArgsRejected ==
    LET a == last.args
    IN  CASE last.op = "Update" -> a.opts.nil \/ a.opts.v.ID = ""
          [] last.op = "Delete" -> Len(a.ids) = 0
          [] last.op = "AddSwap" -> a.opts.nil \/ a.opts.v.CID = "" \/ a.opts.v.SwapCID = ""
          [] last.op = "GetSwapHistory" ->
                a.opts.nil \/ a.opts.v.CID = "" \/ a.opts.v.Domain = ""
          [] last.op = "DeleteSwap" -> a.cid = ""
          [] last.op = "PinByHash" -> a.opts.nil \/ a.opts.v.CID = ""
          [] last.op = "CancelPinRequest" -> a.id = ""
          [] last.op \in {"Vectorize", "DeleteVectors"} -> a.fileID = ""
          [] last.op = "QueryVectors" ->
                a.opts.nil \/ a.opts.v.GroupID = "" \/ a.opts.v.Query = ""
          [] last.op = "File" -> a.file.nil
          [] last.op = "FileArray" -> Len(a.files) = 0
          [] last.op = "JSON" -> a.data = [t |-> "nil"]
          [] last.op = "Base64" -> a.data = <<>>
          [] last.op = "URL" -> a.targetURL = <<>>
          [] OTHER -> FALSE

C15_ValidationFirst ==
    (Returned /\ ArgsRejected) =>
        /\ last.err # NoErr
        /\ ~last.panic
        /\ last.events = <<>>
        /\ disk = {}

C15_Witness ==
    /\ Returned /\ last.op = "AddSwap"
    /\ ~last.args.opts.nil /\ last.args.opts.v.CID = "" /\ last.args.opts.v.SwapCID = "bafy2"
    /\ last.err = ErrRequired("CID and swap CID") /\ last.events = <<>>

(***************************************************************************)
(* C16: Delete takes the IDs one at a time in input order.  The i-th       *)
(* request of the call is the DELETE of ids[i]; a request is followed by   *)
(* another only if it was answered 200; and when the call succeeds the     *)
(* result has one entry per ID, entry i being ID = ids[i], Status =        *)
(* "deleted", duplicates included.                                         *)
(***************************************************************************)
AnsweredOK(resp) == resp.kind = "http" /\ resp.status = 200

C16_DeleteInOrder ==
    (Returned /\ last.op = "Delete") =>
        LET ids == last.args.ids
            sends == last.events
        IN  /\ \A i \in 1..Len(sends) :
                  /\ IsSend(sends[i])
                  /\ i <= Len(ids)
                  /\ sends[i].req.method = "DELETE"
                  /\ sends[i].req.url[Len(sends[i].req.url)] = ids[i]
                  /\ i < Len(sends) => AnsweredOK(sends[i].resp)
            /\ last.err = NoErr =>
                  /\ Len(sends) = Len(ids)
                  /\ \A i \in 1..Len(sends) : AnsweredOK(sends[i].resp)
                  /\ ~last.val.nil
                  /\ last.val.elems = [i \in 1..Len(ids) |-> [ID |-> ids[i], Status |-> "deleted"]]

C16_Witness ==
    /\ Returned /\ last.op = "Delete" /\ last.err = NoErr
    /\ last.args.ids = <<"f2", "f2">>
    /\ last.val.elems = <<[ID |-> "f2", Status |-> "deleted"], [ID |-> "f2", Status |-> "deleted"]>>
    /\ Len(last.events) = 2

(***************************************************************************)
(* C17: when Delete fails at the k-th ID, by a transport error or a status *)
(* other than 200, no request is sent for a later ID and the call returns  *)
(* a nil result with the error, although the k-1 IDs before were answered  *)
(* 200; a result that is not nil is returned only when every ID succeeded. *)
(***************************************************************************)
C17_DeleteAllOrNothing ==
    (Returned /\ last.op = "Delete") =>
        /\ \A k \in 1..Len(last.events) :
              FailedResp(last.events[k].resp) =>
                  /\ Len(last.events) = k
                  /\ \A i \in 1..(k - 1) : AnsweredOK(last.events[i].resp)
                  /\ last.val.nil
                  /\ last.err # NoErr
        /\ last.err # NoErr <=> last.val.nil
        /\ ~last.val.nil =>
              /\ Len(last.val.elems) = Len(last.args.ids)
              /\ \A i \in 1..Len(last.events) : AnsweredOK(last.events[i].resp)

C17_Witness ==
    /\ Returned /\ last.op = "Delete"
    /\ last.args.ids = <<"f1", "f2">>
    /\ Len(last.events) = 2
    /\ AnsweredOK(last.events[1].resp)
    /\ last.events[2].resp.kind = "http" /\ last.events[2].resp.status = 404
    /\ last.val.nil /\ last.err.kind = "API error"

(***************************************************************************)
(* C18: File and FileArray rewind each file to offset 0 right before they  *)
(* read it, so the bytes uploaded for a file are its whole content         *)
(* wherever its read position stood before the call; a File call on a file *)
(* that an earlier call has read to its end uploads the same content.      *)
(***************************************************************************)
GivenFiles == IF last.op = "File" THEN <<last.args.file>> ELSE last.args.files

C18_RewindBeforeRead ==
    (Returned /\ last.op \in {"File", "FileArray"}) =>
        /\ \A j \in 1..Len(last.events) :
              last.events[j].e = "copy" =>
                  (j > 1 /\ last.events[j - 1] = [e |-> "seek", name |-> last.events[j].name])
        /\ \A i \in 1..Len(last.events) :
              IsSend(last.events[i]) =>
                  /\ i = 2 * Len(GivenFiles) + 1
                  /\ Len(last.events[i].req.body.parts) = Len(GivenFiles)
                  /\ \A k \in 1..Len(GivenFiles) :
                        /\ last.events[i].req.body.parts[k].bytes = GivenFiles[k].content
                        /\ last.events[2 * k] =
                              [e |-> "copy", name |-> GivenFiles[k].name,
                               bytes |-> GivenFiles[k].content]

C18_Witness ==
    /\ Returned /\ last.op = "File" /\ NumSends = 1
    /\ last.args.file.offset = 2
    /\ SendsOf(last.events)[1].req.body.parts[1].bytes = <<10, 20>>
    /\ ofiles["h1"].offset = 2

ExpectedURLName(targetURL) ==
    CASE targetURL = <<"https:", "/", "/", "host", "/", "img", "/", "cat.png">> -> "cat.png"
      [] targetURL = <<"https:", "/", "/", "host", "/", "img", "/">> -> "file"
      [] targetURL = <<"https:", "/", "/", "host", "/", "cat.png", "?v=1">> -> "cat.png?v=1"

ExpectedHelperName ==
    IF last.args.opts.v.Name # "" THEN last.args.opts.v.Name
    ELSE CASE last.op = "JSON" -> "data.json"
           [] last.op = "Base64" -> "file"
           [] last.op = "URL" -> ExpectedURLName(last.args.targetURL)

C20_HelperName ==
    (Returned /\ IsHelper) =>
        \A i \in 1..Len(last.events) :
            IsUpload(last.events[i]) =>
                /\ FieldValues(last.events[i].req.body.fields, "name") = <<ExpectedHelperName>>
                /\ ExpectedHelperName # ""

C20_Witness ==
    /\ Returned /\ last.op = "URL" /\ NumSends = 2
    /\ last.args.opts.v.Name = ""
    /\ last.args.targetURL = <<"https:", "/", "/", "host", "/", "img", "/">>
    /\ FieldValues(SendsOf(last.events)[2].req.body.fields, "name") = <<"file">>

(***************************************************************************)
(* C21: if staging fails, nothing is uploaded.  When the base64 text does  *)
(* not decode, the JSON data cannot be marshalled, or the fetch of the     *)
(* target URL fails or is answered with a status other than 200, the       *)
(* helper returns an error, has sent no request to the upload endpoint and *)
(* has created no temporary file.                                          *)
(***************************************************************************)
NotBase64 ==
    {<<"Q", "Q", "Q">>, <<"Q", "*", "Q", "Q">>, <<"Q", "=", "=", "=">>,
     <<"Q", "Q", "=", "=", "Q", "Q", "Q", "Q">>}

StagingFails ==
    CASE last.op = "Base64" -> last.args.data \in NotBase64
      [] last.op = "JSON" -> last.args.data = [t |-> "chan"]
      [] last.op = "URL" ->
            /\ last.events # <<>>
            /\ IsSend(last.events[1])
            /\ FailedResp(last.events[1].resp)
      [] OTHER -> FALSE

C21_NoUploadWithoutStaging ==
    (Returned /\ StagingFails) =>
        /\ last.err # NoErr
        /\ ~last.panic
        /\ last.val = [nil |-> TRUE]
        /\ \A i \in 1..Len(last.events) :
              /\ ~IsUpload(last.events[i])
              /\ last.events[i].e \notin {"createTemp", "write", "remove"}
        /\ disk = {}

C21_Witness ==
    /\ Returned /\ last.op = "Base64"
    /\ last.args.data = <<"Q", "Q", "=", "=", "Q", "Q", "Q", "Q">>
    /\ last.err = [kind |-> "failed to decode base64 data"]
    /\ last.events = <<>>

(***************************************************************************)
(* C22: CreateAccessLink asks for the signature of the URL                 *)
(* "https://<gateway>.mypinata.cloud/files/<CID>" with method "GET", the   *)
(* gateway being opts.Gateway when that is not empty and the configured    *)
(* PinataGateway otherwise; the link it returns holds no escaped '&', has  *)
(* no double quote at either end, and cleaning it again changes nothing.   *)
(***************************************************************************)
C22_AccessLink ==
    (Returned /\ last.op = "CreateAccessLink") =>
        /\ \A i \in 1..Len(last.events) :
              IsSend(last.events[i]) =>
                  LET payload == last.events[i].req.body.payload
                      o == last.args.opts.v
                  IN  /\ payload.method = "GET"
                      /\ payload.url =
                            <<"https://",
                              IF o.Gateway # "" THEN o.Gateway
                              ELSE heap[client.Config].PinataGateway,
                              ".mypinata.cloud/files/", o.CID>>
        /\ last.err = NoErr =>
              /\ \A j \in 1..Len(last.val) : last.val[j] # "\\u0026"
              /\ last.val # <<>> =>
                    (last.val[1] # "\"" /\ last.val[Len(last.val)] # "\"")
              /\ CleanLink(last.val) = last.val

C22_Witness ==
    /\ Returned /\ last.op = "CreateAccessLink" /\ last.err = NoErr
    /\ SendsOf(last.events)[1].resp.body = BodyStr(<<"\"", "\"", "\\u0026">>)
    /\ last.val = <<"&">>
    /\ last.args.opts.v.Gateway = ""
    /\ SendsOf(last.events)[1].req.body.payload.url
         = <<"https://", "gw", ".mypinata.cloud/files/", "bafy1">>


(***************************************************************************)
(* C23: every request of the private files service's Get, List, Update,    *)
(* Delete, AddSwap, GetSwapHistory, DeleteSwap and CreateAccessLink has a  *)
(* URL that is <APIUrl>/files/private or continues it with "/", every      *)
(* request of the public files service has a URL that is                   *)
(* <APIUrl>/files/public or continues it with "/", every upload request of *)
(* File, FileArray, JSON, Base64 and URL carries exactly one form field    *)
(* network, of value "private", and the payload of CreateSignedURL has     *)
(* network = "private", whatever the options are.                          *)
(***************************************************************************)
\* What may follow the prefix in a URL whose path lies under it: a further
\* path segment, or the "?" that ends the path and starts the query.
PathTails == {"/", "/swap/", "/download_link", "/pin_by_cid", "/pin_by_cid/", "?"}
Under(url, cfg, net) ==
    /\ Len(url) >= 3
    /\ SubSeq(url, 1, 3) = <<cfg.APIUrl, "/files/", net>>
    /\ Len(url) > 3 => url[4] \in PathTails
PrivateFilesOps ==
    {"Get", "List", "Update", "Delete", "AddSwap", "GetSwapHistory", "DeleteSwap",
     "CreateAccessLink"}
UploadOps == {"File", "FileArray", "JSON", "Base64", "URL"}

PointerOps ==
    {"Get", "List", "Update", "AddSwap", "PinByHash", "Queue", "Vectorize",
     "QueryVectors", "File", "FileArray"}
URLOps == {"CreateSignedURL", "CreateAccessLink"}

C24_SuccessHasResult ==
    (Returned /\ ~last.panic /\ last.err = NoErr) =>
        /\ last.op \in PointerOps => ~last.val.nil
        /\ last.op \in URLOps => last.val # <<>>

\* C24, the case that fails: a 200 response whose JSON is {"data": null} is
\* decoded without an error and the nil Data pointer is returned as success.
C24_Witness ==
    /\ Returned /\ last.op = "File" /\ NumSends = 1
    /\ SendsOf(last.events)[1].resp = HTTP(200, BodyNull)
    /\ last.err = NoErr /\ last.val = NilPtr

(***************************************************************************)
(* C25 (as stated): JSON, Base64 and URL called with valid content (data    *)
(* that marshals, a non-empty string that decodes, a non-empty URL whose    *)
(* fetch is answered 200) and nil options return a result or an error and   *)
(* never panic.                                                             *)
(***************************************************************************)
ValidContent ==
    CASE last.op = "JSON" -> last.args.data \notin {[t |-> "nil"], [t |-> "chan"]}
      [] last.op = "Base64" -> last.args.data # <<>> /\ last.args.data \notin NotBase64
      [] last.op = "URL" -> last.args.targetURL # <<>> /\ ~StagingFails
      [] OTHER -> FALSE

C25_NilOptionsAccepted ==
    (Returned /\ IsHelper /\ ValidContent /\ last.args.opts.nil) => ~last.panic

\* C25, the case that fails: JSON("hello", nil) stages the content and then
\* reads opts.GroupID of the nil options; the deferred removal still runs.
C25_Witness ==
    /\ Returned /\ last.op = "JSON" /\ last.args.data = [t |-> "string", s |-> "hello"]
    /\ last.args.opts.nil /\ last.panic
    /\ Len(last.events) = 4
    /\ [i \in 1..4 |-> last.events[i].e] = <<"createTemp", "write", "seek", "remove">>
    /\ NumSends = 0


====
